---- MODULE Spec2Model ----
(***************************************************************************)
(* The capture replay / state-reconstruction engine of rd_mcp              *)
(* (src/rd_mcp/rdc_analyzer_cmd.py): the three trackers, the draw-call     *)
(* extractor, the pass segmenter and the pass dependency analyzer.         *)
(*                                                                         *)
(* An API call (an XML <chunk>) is a record [name, args]; args maps the    *)
(* keys "<element type>:<name attribute>" to the element's text, and       *)
(* "@id" / "@duration" to the chunk's own XML attributes.  An enum element *)
(* has its string attribute under "enum:<name>" and its text under         *)
(* "enum.text:<name>".  A key that is not in the domain is an element that *)
(* is not in the chunk.                                                    *)
(***************************************************************************)
EXTENDS Integers, Sequences, FiniteSets, TLC

VARIABLES
    pc,                    \* where the analysis run is: "extract", "segmented", "done", "raised", "tracker"
    chunks,                \* the events of a given log that are still to be processed
    state_tracker,         \* RenderStateTracker's fields
    sampler_tracker,       \* SamplerTracker's fields
    fbo_tracker,           \* FramebufferTracker's fields
    current_program,       \* locals of _extract_draws_with_state
    bound_textures,
    current_texture_unit,
    draw_id,
    draws,
    passes,                \* the result of _extract_passes_with_fbo
    dependencies,          \* the result of PassDependencyAnalyzer.analyze
    output_map,            \* the analyzer's output_map: texture id -> <<pass index, pass name>>
    runs,                  \* concurrent analysis runs, each with the state it owns
    snap,                  \* the value the last get_current_state() call returned
    switch_info,           \* the value the last extract_switch_info() call returned
    h                      \* history of the run (observations only; no code reads it)

vars == <<pc, chunks, state_tracker, sampler_tracker, fbo_tracker, current_program,
          bound_textures, current_texture_unit, draw_id, draws, passes, dependencies,
          output_map, runs, snap, switch_info, h>>

extractor_locals == <<current_program, bound_textures, current_texture_unit, draw_id, draws>>
trackers == <<state_tracker, sampler_tracker, fbo_tracker>>

\* ------------------------------------------------------------------------
\* Python values
\* ------------------------------------------------------------------------

\* The text of an element that has none (ElementTree gives None).
NoneText == "<None>"

NoArgs == [k \in {} |-> ""]

Chunk(name, args) == [name |-> name, args |-> args]

Has(e, key) == key \in DOMAIN e.args

DictGet(d, k, default) == IF k \in DOMAIN d THEN d[k] ELSE default

DictPut(d, k, v) == [x \in (DOMAIN d) \cup {k} |-> IF x = k THEN v ELSE d[x]]

Last(s) == s[Len(s)]

\* int(text): the numerals of the model and their values; every other text
\* raises ValueError, and None raises TypeError.
IntTexts ==
    ("0" :> 0) @@ ("1" :> 1) @@ ("2" :> 2) @@ ("3" :> 3) @@ ("6" :> 6) @@ ("-1" :> -1)
    @@ ("+3" :> 3) @@ ("007" :> 7) @@ ("255" :> 255) @@ ("5000000" :> 5000000)

IsIntText(t) == t \in DOMAIN IntTexts

\* str.lower() of the bool texts of the model.
Lower(t) ==
    CASE t = "True" -> "true"
      [] t = "TRUE" -> "true"
      [] t = "GL_TRUE" -> "gl_true"
      [] t = "False" -> "false"
      [] t = "GL_FALSE" -> "gl_false"
      [] OTHER -> t

\* `word in text` for the words the code looks for and the texts of the model.
WordsIn ==
    ("GL_BLEND" :> {"BLEND"})
    @@ ("GL_DEPTH_TEST" :> {"DEPTH_TEST", "DEPTH"})
    @@ ("GL_STENCIL_TEST" :> {"STENCIL_TEST", "STENCIL"})
    @@ ("GL_CULL_FACE" :> {"CULL_FACE"})
    @@ ("GL_SCISSOR_TEST" :> {"SCISSOR_TEST"})
    @@ ("GL_DITHER" :> {})
    @@ ("GL_BLEND_ADVANCED_COHERENT_KHR" :> {"BLEND"})
    @@ ("GL_CW" :> {"CW"})
    @@ ("GL_CCW" :> {"CW", "CCW"})
    @@ ("GL_LINE" :> {"LINE"})
    @@ ("GL_POINT" :> {"POINT"})
    @@ ("GL_FILL" :> {})
    @@ ("GL_FUNC_ADD" :> {"ADD"})
    @@ ("GL_FUNC_SUBTRACT" :> {"SUBTRACT"})
    @@ ("GL_FUNC_REVERSE_SUBTRACT" :> {"SUBTRACT", "REVERSE"})
    @@ ("GL_MIN" :> {"MIN"})
    @@ ("GL_MAX" :> {"MAX"})
    @@ ("GL_COLOR_ATTACHMENT0" :> {"COLOR"})
    @@ ("GL_COLOR_ATTACHMENT1" :> {"COLOR"})
    @@ ("GL_DEPTH_ATTACHMENT" :> {"DEPTH"})
    @@ ("GL_STENCIL_ATTACHMENT" :> {"STENCIL"})
    @@ ("GL_DEPTH_STENCIL_ATTACHMENT" :> {"DEPTH_STENCIL", "DEPTH", "STENCIL"})
    @@ ("GL_COLOR_BUFFER_BIT" :> {"COLOR"})
    @@ ("GL_DEPTH_BUFFER_BIT" :> {"DEPTH"})
    @@ ("GL_COLOR_BUFFER_BIT | GL_DEPTH_BUFFER_BIT" :> {"COLOR", "DEPTH"})
    @@ ("GL_STENCIL_BUFFER_BIT" :> {"STENCIL"})
    @@ ("GL_TEXTURE0" :> {"TEXTURE0"})
    @@ ("GL_TEXTURE1" :> {})
    @@ ("GL_TEXTURE0_ARB" :> {"TEXTURE0"})
    @@ ("GL_TEXTURE_MIN_FILTER" :> {"MIN_FILTER"})
    @@ ("GL_TEXTURE_MAG_FILTER" :> {"MAG_FILTER"})
    @@ ("GL_TEXTURE_WRAP_S" :> {"WRAP_S"})
    @@ ("GL_TEXTURE_WRAP_T" :> {"WRAP_T"})
    @@ ("GL_TEXTURE_WRAP_R" :> {"WRAP_R"})
    @@ ("GL_TEXTURE_MAX_ANISOTROPY_EXT" :> {"MAX_ANISOTROPY"})
    @@ ("glTexParameteri" :> {})
    @@ ("glTexParameterf" :> {})
    @@ ("glSamplerParameteri" :> {"Sampler"})
    @@ ("glSamplerParameterf" :> {"Sampler"})
    @@ ("glDrawArrays" :> {})
    @@ ("glDrawElements" :> {"Elements"})
    @@ ("glDrawElementsInstanced" :> {"Elements", "Instanced"})
    @@ ("glDrawArraysInstanced" :> {"Instanced"})
    @@ ("glDrawRangeElements" :> {"Elements"})
    @@ ("glMultiDrawArrays" :> {})
    @@ ("glMultiDrawElements" :> {"Elements"})
    @@ ("glDrawElementsBaseVertex" :> {"Elements"})

In(word, text) == text \in DOMAIN WordsIn /\ word \in WordsIn[text]

\* ------------------------------------------------------------------------
\* RenderStateTracker
\* ------------------------------------------------------------------------

BLEND_FUNCS ==
    ("GL_ZERO" :> "ZERO") @@ ("GL_ONE" :> "ONE")
    @@ ("GL_SRC_COLOR" :> "SRC_COLOR") @@ ("GL_ONE_MINUS_SRC_COLOR" :> "ONE_MINUS_SRC_COLOR")
    @@ ("GL_DST_COLOR" :> "DST_COLOR") @@ ("GL_ONE_MINUS_DST_COLOR" :> "ONE_MINUS_DST_COLOR")
    @@ ("GL_SRC_ALPHA" :> "SRC_ALPHA") @@ ("GL_ONE_MINUS_SRC_ALPHA" :> "ONE_MINUS_SRC_ALPHA")
    @@ ("GL_DST_ALPHA" :> "DST_ALPHA") @@ ("GL_ONE_MINUS_DST_ALPHA" :> "ONE_MINUS_DST_ALPHA")
    @@ ("GL_CONSTANT_COLOR" :> "CONSTANT_COLOR")
    @@ ("GL_ONE_MINUS_CONSTANT_COLOR" :> "ONE_MINUS_CONSTANT_COLOR")
    @@ ("GL_CONSTANT_ALPHA" :> "CONSTANT_ALPHA")
    @@ ("GL_ONE_MINUS_CONSTANT_ALPHA" :> "ONE_MINUS_CONSTANT_ALPHA")
    @@ ("GL_SRC_ALPHA_SATURATE" :> "SRC_ALPHA_SATURATE")

DEPTH_FUNCS ==
    ("GL_NEVER" :> "NEVER") @@ ("GL_LESS" :> "LESS") @@ ("GL_EQUAL" :> "EQUAL")
    @@ ("GL_LEQUAL" :> "LEQUAL") @@ ("GL_GREATER" :> "GREATER") @@ ("GL_NOTEQUAL" :> "NOTEQUAL")
    @@ ("GL_GEQUAL" :> "GEQUAL") @@ ("GL_ALWAYS" :> "ALWAYS")

CULL_MODES ==
    ("GL_FRONT" :> "FRONT") @@ ("GL_BACK" :> "BACK") @@ ("GL_FRONT_AND_BACK" :> "FRONT_AND_BACK")

STENCIL_OPS ==
    ("GL_KEEP" :> "KEEP") @@ ("GL_ZERO" :> "ZERO") @@ ("GL_REPLACE" :> "REPLACE")
    @@ ("GL_INCR" :> "INCR") @@ ("GL_INCR_WRAP" :> "INCR_WRAP")
    @@ ("GL_DECR" :> "DECR") @@ ("GL_DECR_WRAP" :> "DECR_WRAP")
    @@ ("GL_INVERT" :> "INVERT")

StencilMaskDefault == 255

\* reset() that clears the stencil mask instead of setting all its bits.
RenderStateTracker_reset_clears_mask ==
    [ blend_enabled |-> FALSE, src_rgb |-> "ONE", dst_rgb |-> "ZERO",
      src_alpha |-> "ONE", dst_alpha |-> "ZERO",
      equation_rgb |-> "FUNC_ADD", equation_alpha |-> "FUNC_ADD",
      depth_test_enabled |-> FALSE, depth_write_enabled |-> TRUE, depth_func |-> "LESS",
      stencil_enabled |-> FALSE, stencil_func |-> "ALWAYS", stencil_ref |-> 0,
      stencil_mask |-> 0,
      stencil_fail |-> "KEEP", stencil_depth_fail |-> "KEEP", stencil_pass |-> "KEEP",
      cull_enabled |-> FALSE, cull_mode |-> "BACK", front_face |-> "CCW",
      scissor_enabled |-> FALSE, scissor_x |-> 0, scissor_y |-> 0,
      scissor_width |-> 0, scissor_height |-> 0,
      polygon_mode |-> "FILL", color_mask |-> "RGBA" ]

RenderStateTracker_reset ==
    [ blend_enabled |-> FALSE, src_rgb |-> "ONE", dst_rgb |-> "ZERO",
      src_alpha |-> "ONE", dst_alpha |-> "ZERO",
      equation_rgb |-> "FUNC_ADD", equation_alpha |-> "FUNC_ADD",
      depth_test_enabled |-> FALSE, depth_write_enabled |-> TRUE, depth_func |-> "LESS",
      stencil_enabled |-> FALSE, stencil_func |-> "ALWAYS", stencil_ref |-> 0,
      stencil_mask |-> StencilMaskDefault,
      stencil_fail |-> "KEEP", stencil_depth_fail |-> "KEEP", stencil_pass |-> "KEEP",
      cull_enabled |-> FALSE, cull_mode |-> "BACK", front_face |-> "CCW",
      scissor_enabled |-> FALSE, scissor_x |-> 0, scissor_y |-> 0,
      scissor_width |-> 0, scissor_height |-> 0,
      polygon_mode |-> "FILL", color_mask |-> "RGBA" ]

\* elem.get("string", elem.text or "") of the enum element, "" without one.
get_enum_value(e, name) ==
    IF Has(e, "enum:" \o name) THEN e.args["enum:" \o name]
    ELSE IF Has(e, "enum.text:" \o name) /\ e.args["enum.text:" \o name] # NoneText
         THEN e.args["enum.text:" \o name]
    ELSE ""

\* int(elem.text) of the int element; 0 without one or when int() raises.
get_int_value(e, name) ==
    IF Has(e, "int:" \o name) /\ IsIntText(e.args["int:" \o name])
    THEN IntTexts[e.args["int:" \o name]]
    ELSE 0

\* elem.text.lower() of a bool element without text raises AttributeError.
get_bool_value_raises(e, name) ==
    Has(e, "bool:" \o name) /\ e.args["bool:" \o name] = NoneText

get_bool_value(e, name) ==
    IF Has(e, "bool:" \o name)
    THEN Lower(e.args["bool:" \o name]) \in {"true", "1", "gl_true"}
    ELSE IF Has(e, "byte:" \o name)
    THEN e.args["byte:" \o name] \notin {"0", "false", "GL_FALSE"}
    ELSE FALSE

parse_blend_equation(eq) ==
    IF In("ADD", eq) THEN "FUNC_ADD"
    ELSE IF In("SUBTRACT", eq)
         THEN (IF In("REVERSE", eq) THEN "FUNC_REVERSE_SUBTRACT" ELSE "FUNC_SUBTRACT")
    ELSE IF In("MIN", eq) THEN "MIN"
    ELSE IF In("MAX", eq) THEN "MAX"
    ELSE "FUNC_ADD"

parse_stencil_op(op) == DictGet(STENCIL_OPS, op, op)

\* _enable_capability with a disable that also puts the capability's parameters
\* back to their defaults.
enable_capability_disable_resets(s, cap, enabled) ==
    IF In("BLEND", cap) THEN
        IF enabled THEN [s EXCEPT !.blend_enabled = TRUE]
        ELSE [s EXCEPT !.blend_enabled = FALSE, !.src_rgb = "ONE", !.dst_rgb = "ZERO",
                       !.src_alpha = "ONE", !.dst_alpha = "ZERO"]
    ELSE IF In("DEPTH_TEST", cap) THEN [s EXCEPT !.depth_test_enabled = enabled]
    ELSE IF In("STENCIL_TEST", cap) THEN [s EXCEPT !.stencil_enabled = enabled]
    ELSE IF In("CULL_FACE", cap) THEN [s EXCEPT !.cull_enabled = enabled]
    ELSE IF In("SCISSOR_TEST", cap) THEN [s EXCEPT !.scissor_enabled = enabled]
    ELSE s

enable_capability(s, cap, enabled) ==
    IF In("BLEND", cap) THEN [s EXCEPT !.blend_enabled = enabled]
    ELSE IF In("DEPTH_TEST", cap) THEN [s EXCEPT !.depth_test_enabled = enabled]
    ELSE IF In("STENCIL_TEST", cap) THEN [s EXCEPT !.stencil_enabled = enabled]
    ELSE IF In("CULL_FACE", cap) THEN [s EXCEPT !.cull_enabled = enabled]
    ELSE IF In("SCISSOR_TEST", cap) THEN [s EXCEPT !.scissor_enabled = enabled]
    ELSE s

color_mask_string(r, g, b, a) ==
    LET m == (IF r THEN "R" ELSE "") \o (IF g THEN "G" ELSE "")
             \o (IF b THEN "B" ELSE "") \o (IF a THEN "A" ELSE "")
    IN  IF m = "" THEN "NONE" ELSE m

\* Whether RenderStateTracker.process_chunk raises on the chunk.
RenderStateTracker_raises(e) ==
    \/ e.name = "glDepthMask" /\ get_bool_value_raises(e, "flag")
    \/ e.name = "glColorMask"
       /\ \E n \in {"red", "green", "blue", "alpha"} : get_bool_value_raises(e, n)

\* The tracker's fields after process_chunk(e) returned.
RenderStateTracker_process_chunk(s, e) ==
    LET name == e.name IN
    IF name = "glEnable" THEN enable_capability(s, get_enum_value(e, "cap"), TRUE)
    ELSE IF name = "glDisable" THEN enable_capability(s, get_enum_value(e, "cap"), FALSE)
    ELSE IF name = "glBlendFunc" THEN
        LET sfactor == get_enum_value(e, "sfactor")
            dfactor == get_enum_value(e, "dfactor")
        IN  [s EXCEPT !.src_rgb = DictGet(BLEND_FUNCS, sfactor, sfactor),
                      !.src_alpha = DictGet(BLEND_FUNCS, sfactor, sfactor),
                      !.dst_rgb = DictGet(BLEND_FUNCS, dfactor, dfactor),
                      !.dst_alpha = DictGet(BLEND_FUNCS, dfactor, dfactor)]
    ELSE IF name = "glBlendFuncSeparate" THEN
        [s EXCEPT !.src_rgb = DictGet(BLEND_FUNCS, get_enum_value(e, "srcRGB"), "ONE"),
                  !.dst_rgb = DictGet(BLEND_FUNCS, get_enum_value(e, "dstRGB"), "ZERO"),
                  !.src_alpha = DictGet(BLEND_FUNCS, get_enum_value(e, "srcAlpha"), "ONE"),
                  !.dst_alpha = DictGet(BLEND_FUNCS, get_enum_value(e, "dstAlpha"), "ZERO")]
    ELSE IF name = "glBlendEquation" THEN
        [s EXCEPT !.equation_rgb = parse_blend_equation(get_enum_value(e, "mode")),
                  !.equation_alpha = parse_blend_equation(get_enum_value(e, "mode"))]
    ELSE IF name = "glBlendEquationSeparate" THEN
        [s EXCEPT !.equation_rgb = parse_blend_equation(get_enum_value(e, "modeRGB")),
                  !.equation_alpha = parse_blend_equation(get_enum_value(e, "modeAlpha"))]
    ELSE IF name = "glDepthFunc" THEN
        [s EXCEPT !.depth_func = DictGet(DEPTH_FUNCS, get_enum_value(e, "func"),
                                         get_enum_value(e, "func"))]
    ELSE IF name = "glDepthMask" THEN
        [s EXCEPT !.depth_write_enabled = get_bool_value(e, "flag")]
    ELSE IF name = "glStencilFunc" THEN
        [s EXCEPT !.stencil_func = DictGet(DEPTH_FUNCS, get_enum_value(e, "func"), "ALWAYS"),
                  !.stencil_ref = get_int_value(e, "ref"),
                  !.stencil_mask = get_int_value(e, "mask")]
    ELSE IF name = "glStencilOp" THEN
        [s EXCEPT !.stencil_fail = parse_stencil_op(get_enum_value(e, "fail")),
                  !.stencil_depth_fail = parse_stencil_op(get_enum_value(e, "zfail")),
                  !.stencil_pass = parse_stencil_op(get_enum_value(e, "zpass"))]
    ELSE IF name = "glCullFace" THEN
        [s EXCEPT !.cull_mode = DictGet(CULL_MODES, get_enum_value(e, "mode"),
                                        get_enum_value(e, "mode"))]
    ELSE IF name = "glFrontFace" THEN
        LET mode == get_enum_value(e, "mode")
        IN  [s EXCEPT !.front_face = IF In("CW", mode) /\ ~In("CCW", mode) THEN "CW" ELSE "CCW"]
    ELSE IF name = "glScissor" THEN
        [s EXCEPT !.scissor_x = get_int_value(e, "x"),
                  !.scissor_y = get_int_value(e, "y"),
                  !.scissor_width = get_int_value(e, "width"),
                  !.scissor_height = get_int_value(e, "height")]
    ELSE IF name = "glColorMask" THEN
        [s EXCEPT !.color_mask = color_mask_string(get_bool_value(e, "red"),
                                                   get_bool_value(e, "green"),
                                                   get_bool_value(e, "blue"),
                                                   get_bool_value(e, "alpha"))]
    ELSE IF name = "glPolygonMode" THEN
        LET mode == get_enum_value(e, "mode")
        IN  [s EXCEPT !.polygon_mode = IF In("LINE", mode) THEN "LINE"
                                       ELSE IF In("POINT", mode) THEN "POINT"
                                       ELSE "FILL"]
    ELSE s

\* The DrawCallState get_current_state() builds from the fields.
RenderStateTracker_get_current_state(s) ==
    [ blend |-> [enabled |-> s.blend_enabled, src_rgb |-> s.src_rgb, dst_rgb |-> s.dst_rgb,
                 src_alpha |-> s.src_alpha, dst_alpha |-> s.dst_alpha,
                 equation_rgb |-> s.equation_rgb, equation_alpha |-> s.equation_alpha],
      depth |-> [test_enabled |-> s.depth_test_enabled,
                 write_enabled |-> s.depth_write_enabled, func |-> s.depth_func],
      stencil |-> [enabled |-> s.stencil_enabled, func |-> s.stencil_func,
                   ref |-> s.stencil_ref, mask |-> s.stencil_mask,
                   fail_op |-> s.stencil_fail, depth_fail_op |-> s.stencil_depth_fail,
                   pass_op |-> s.stencil_pass],
      cull |-> [enabled |-> s.cull_enabled, mode |-> s.cull_mode, front_face |-> s.front_face],
      scissor |-> [enabled |-> s.scissor_enabled, x |-> s.scissor_x, y |-> s.scissor_y,
                   width |-> s.scissor_width, height |-> s.scissor_height],
      polygon_mode |-> s.polygon_mode,
      color_mask |-> s.color_mask ]

\* ------------------------------------------------------------------------
\* SamplerTracker
\* ------------------------------------------------------------------------

FILTER_MODES ==
    ("GL_NEAREST" :> "NEAREST") @@ ("GL_LINEAR" :> "LINEAR")
    @@ ("GL_NEAREST_MIPMAP_NEAREST" :> "NEAREST_MIPMAP_NEAREST")
    @@ ("GL_LINEAR_MIPMAP_NEAREST" :> "LINEAR_MIPMAP_NEAREST")
    @@ ("GL_NEAREST_MIPMAP_LINEAR" :> "NEAREST_MIPMAP_LINEAR")
    @@ ("GL_LINEAR_MIPMAP_LINEAR" :> "LINEAR_MIPMAP_LINEAR")

WRAP_MODES ==
    ("GL_REPEAT" :> "REPEAT") @@ ("GL_CLAMP_TO_EDGE" :> "CLAMP_TO_EDGE")
    @@ ("GL_CLAMP_TO_BORDER" :> "CLAMP_TO_BORDER")
    @@ ("GL_MIRRORED_REPEAT" :> "MIRRORED_REPEAT")
    @@ ("GL_MIRROR_CLAMP_TO_EDGE" :> "MIRROR_CLAMP_TO_EDGE")

\* re.search(r"(\d+)$", text): the number a text of the model ends with.
TrailingDigits ==
    ("GL_TEXTURE0" :> 0) @@ ("GL_TEXTURE1" :> 1) @@ ("1" :> 1)

\* float(text) of the float texts of the model, as Python prints the result.
FloatTexts ==
    ("1.0" :> "1.0") @@ ("4.0" :> "4.0") @@ ("16" :> "16.0")

SamplerInfo(sampler_id) ==
    [ sampler_id |-> sampler_id, texture_id |-> "", texture_name |-> "",
      min_filter |-> "LINEAR", mag_filter |-> "LINEAR",
      wrap_s |-> "REPEAT", wrap_t |-> "REPEAT", wrap_r |-> "REPEAT",
      anisotropy |-> "1.0", min_lod |-> "-1000.0", max_lod |-> "1000.0",
      lod_bias |-> "0.0", compare_mode |-> "NONE", compare_func |-> "LEQUAL" ]

\* samplers is the dict in insertion order: a sequence of SamplerInfo, one per key.
SamplerTracker_init ==
    [ samplers |-> <<>>, current_texture_unit |-> 0, bound_textures |-> [u \in {} |-> ""] ]

\* elem.text or "" of the ResourceId element, "" without one.
get_resource_id(e, name) ==
    IF Has(e, "ResourceId:" \o name) /\ e.args["ResourceId:" \o name] # NoneText
    THEN e.args["ResourceId:" \o name]
    ELSE ""

sampler_index(samplers, sampler_id) ==
    IF \E i \in 1..Len(samplers) : samplers[i].sampler_id = sampler_id
    THEN CHOOSE i \in 1..Len(samplers) : samplers[i].sampler_id = sampler_id
    ELSE 0

\* _process_tex_param with a min filter that also sets the mag filter.
SamplerTracker_process_tex_param_both_filters(t, e) ==
    LET pname == get_enum_value(e, "pname")
        sampler_id ==
            IF In("Sampler", e.name) THEN get_resource_id(e, "sampler")
            ELSE DictGet(t.bound_textures, t.current_texture_unit,
                         "tex_unit_" \o ToString(t.current_texture_unit))
    IN
    IF sampler_id = "" THEN t
    ELSE
        LET samplers1 == IF sampler_index(t.samplers, sampler_id) = 0
                         THEN Append(t.samplers, SamplerInfo(sampler_id))
                         ELSE t.samplers
            i == sampler_index(samplers1, sampler_id)
            param_value == get_enum_value(e, "param")
            samplers2 ==
                IF In("MIN_FILTER", pname) THEN
                    [samplers1 EXCEPT ![i].min_filter = DictGet(FILTER_MODES, param_value, param_value),
                                      ![i].mag_filter = DictGet(FILTER_MODES, param_value, param_value)]
                ELSE IF In("MAG_FILTER", pname) THEN
                    [samplers1 EXCEPT ![i].mag_filter = DictGet(FILTER_MODES, param_value, param_value)]
                ELSE IF In("WRAP_S", pname) THEN
                    [samplers1 EXCEPT ![i].wrap_s = DictGet(WRAP_MODES, param_value, param_value)]
                ELSE IF In("WRAP_T", pname) THEN
                    [samplers1 EXCEPT ![i].wrap_t = DictGet(WRAP_MODES, param_value, param_value)]
                ELSE IF In("WRAP_R", pname) THEN
                    [samplers1 EXCEPT ![i].wrap_r = DictGet(WRAP_MODES, param_value, param_value)]
                ELSE IF In("MAX_ANISOTROPY", pname) THEN
                    IF Has(e, "float:param") /\ e.args["float:param"] \in DOMAIN FloatTexts
                    THEN [samplers1 EXCEPT ![i].anisotropy = FloatTexts[e.args["float:param"]]]
                    ELSE samplers1
                ELSE samplers1
        IN  [t EXCEPT !.samplers = samplers2]

SamplerTracker_process_tex_param(t, e) ==
    LET pname == get_enum_value(e, "pname")
        sampler_id ==
            IF In("Sampler", e.name) THEN get_resource_id(e, "sampler")
            ELSE DictGet(t.bound_textures, t.current_texture_unit,
                         "tex_unit_" \o ToString(t.current_texture_unit))
    IN
    IF sampler_id = "" THEN t
    ELSE
        LET samplers1 == IF sampler_index(t.samplers, sampler_id) = 0
                         THEN Append(t.samplers, SamplerInfo(sampler_id))
                         ELSE t.samplers
            i == sampler_index(samplers1, sampler_id)
            param_value == get_enum_value(e, "param")
            samplers2 ==
                IF In("MIN_FILTER", pname) THEN
                    [samplers1 EXCEPT ![i].min_filter = DictGet(FILTER_MODES, param_value, param_value)]
                ELSE IF In("MAG_FILTER", pname) THEN
                    [samplers1 EXCEPT ![i].mag_filter = DictGet(FILTER_MODES, param_value, param_value)]
                ELSE IF In("WRAP_S", pname) THEN
                    [samplers1 EXCEPT ![i].wrap_s = DictGet(WRAP_MODES, param_value, param_value)]
                ELSE IF In("WRAP_T", pname) THEN
                    [samplers1 EXCEPT ![i].wrap_t = DictGet(WRAP_MODES, param_value, param_value)]
                ELSE IF In("WRAP_R", pname) THEN
                    [samplers1 EXCEPT ![i].wrap_r = DictGet(WRAP_MODES, param_value, param_value)]
                ELSE IF In("MAX_ANISOTROPY", pname) THEN
                    IF Has(e, "float:param") /\ e.args["float:param"] \in DOMAIN FloatTexts
                    THEN [samplers1 EXCEPT ![i].anisotropy = FloatTexts[e.args["float:param"]]]
                    ELSE samplers1
                ELSE samplers1
        IN  [t EXCEPT !.samplers = samplers2]

SamplerTracker_process_chunk(t, e) ==
    IF e.name = "glActiveTexture" THEN
        LET unit == get_enum_value(e, "texture") IN
        IF unit = "" THEN t
        ELSE IF unit \in DOMAIN TrailingDigits
             THEN [t EXCEPT !.current_texture_unit = TrailingDigits[unit]]
        ELSE IF In("TEXTURE0", unit) THEN [t EXCEPT !.current_texture_unit = 0]
        ELSE t
    ELSE IF e.name = "glBindTexture" THEN
        LET tex_id == get_resource_id(e, "texture") IN
        IF tex_id # ""
        THEN [t EXCEPT !.bound_textures = DictPut(t.bound_textures, t.current_texture_unit, tex_id)]
        ELSE t
    ELSE IF e.name \in {"glTexParameteri", "glTexParameterf",
                        "glSamplerParameteri", "glSamplerParameterf"}
         THEN SamplerTracker_process_tex_param(t, e)
    ELSE t

\* ------------------------------------------------------------------------
\* FramebufferTracker
\* ------------------------------------------------------------------------

\* An Optional[RenderTargetInfo] is <<>> (None) or <<the record>>.
RenderTargetInfo(attachment, texture_id, level) ==
    [attachment |-> attachment, texture_id |-> texture_id, level |-> level]

FramebufferInfo(fbo_id, name, is_default) ==
    [ fbo_id |-> fbo_id, name |-> name, color_attachments |-> <<>>,
      depth_attachment |-> <<>>, stencil_attachment |-> <<>>,
      depth_stencil_attachment |-> <<>>, is_default |-> is_default,
      draw_buffers |-> <<>>, clear_ops |-> <<>> ]

FramebufferTracker_init ==
    [ framebuffers |-> ("0" :> FramebufferInfo("0", "Default Framebuffer", TRUE)),
      current_fbo |-> "0" ]

\* _process_bind_framebuffer that registers the framebuffer and leaves
\* current_fbo as it was.
FramebufferTracker_bind_registers_only(t, e) ==
    LET id0 == get_resource_id(e, "framebuffer")
        fbo_id == IF id0 = "" THEN "0" ELSE id0
    IN  [ t EXCEPT !.framebuffers =
                        IF fbo_id \in DOMAIN t.framebuffers THEN @
                        ELSE DictPut(@, fbo_id,
                                     FramebufferInfo(fbo_id, "FBO_" \o fbo_id, fbo_id = "0")) ]

\* _process_bind_framebuffer that makes a new descriptor at every bind.
FramebufferTracker_bind_recreates(t, e) ==
    LET id0 == get_resource_id(e, "framebuffer")
        fbo_id == IF id0 = "" THEN "0" ELSE id0
    IN  [ t EXCEPT !.current_fbo = fbo_id,
                   !.framebuffers =
                        DictPut(@, fbo_id, FramebufferInfo(fbo_id, "FBO_" \o fbo_id, fbo_id = "0")) ]

\* _process_bind_framebuffer that binds the framebuffer without registering it.
FramebufferTracker_bind_without_register(t, e) ==
    LET id0 == get_resource_id(e, "framebuffer")
        fbo_id == IF id0 = "" THEN "0" ELSE id0
    IN  [ t EXCEPT !.current_fbo = fbo_id ]

\* _process_bind_framebuffer that registers the framebuffer without a name.
FramebufferTracker_bind_registers_unnamed(t, e) ==
    LET id0 == get_resource_id(e, "framebuffer")
        fbo_id == IF id0 = "" THEN "0" ELSE id0
    IN  [ t EXCEPT !.current_fbo = fbo_id,
                   !.framebuffers =
                        IF fbo_id \in DOMAIN t.framebuffers THEN @
                        ELSE DictPut(@, fbo_id, FramebufferInfo(fbo_id, "", fbo_id = "0")) ]

FramebufferTracker_process_bind_framebuffer(t, e) ==
    LET id0 == get_resource_id(e, "framebuffer")
        fbo_id == IF id0 = "" THEN "0" ELSE id0
    IN  [ t EXCEPT !.current_fbo = fbo_id,
                   !.framebuffers =
                        IF fbo_id \in DOMAIN t.framebuffers THEN @
                        ELSE DictPut(@, fbo_id,
                                     FramebufferInfo(fbo_id, "FBO_" \o fbo_id, fbo_id = "0")) ]

\* The routing with a color attachment that replaces the list.
attach_color_replaces(t, rt_info) ==
    LET cur == t.current_fbo
        attachment == rt_info.attachment
    IN
    IF In("COLOR", attachment)
    THEN [t EXCEPT !.framebuffers[cur].color_attachments = <<rt_info>>]
    ELSE IF In("DEPTH_STENCIL", attachment)
    THEN [t EXCEPT !.framebuffers[cur].depth_stencil_attachment = <<rt_info>>]
    ELSE IF In("DEPTH", attachment)
    THEN [t EXCEPT !.framebuffers[cur].depth_attachment = <<rt_info>>]
    ELSE IF In("STENCIL", attachment)
    THEN [t EXCEPT !.framebuffers[cur].stencil_attachment = <<rt_info>>]
    ELSE t

\* The routing of an attachment to one field of the current framebuffer's record.
attach(t, rt_info) ==
    LET cur == t.current_fbo
        attachment == rt_info.attachment
    IN
    IF In("COLOR", attachment)
    THEN [t EXCEPT !.framebuffers[cur].color_attachments = Append(@, rt_info)]
    ELSE IF In("DEPTH_STENCIL", attachment)
    THEN [t EXCEPT !.framebuffers[cur].depth_stencil_attachment = <<rt_info>>]
    ELSE IF In("DEPTH", attachment)
    THEN [t EXCEPT !.framebuffers[cur].depth_attachment = <<rt_info>>]
    ELSE IF In("STENCIL", attachment)
    THEN [t EXCEPT !.framebuffers[cur].stencil_attachment = <<rt_info>>]
    ELSE t

FramebufferTracker_process_framebuffer_texture(t, e) ==
    LET attachment == get_enum_value(e, "attachment")
        texture_id == get_resource_id(e, "texture")
        level == get_int_value(e, "level")
    IN
    IF attachment = "" \/ texture_id = "" THEN t
    ELSE IF t.current_fbo \notin DOMAIN t.framebuffers THEN t
    ELSE attach(t, RenderTargetInfo(attachment, texture_id, level))

FramebufferTracker_process_framebuffer_renderbuffer(t, e) ==
    LET attachment == get_enum_value(e, "attachment")
        renderbuffer_id == get_resource_id(e, "renderbuffer")
    IN
    IF attachment = "" \/ renderbuffer_id = "" THEN t
    ELSE IF t.current_fbo \notin DOMAIN t.framebuffers THEN t
    ELSE attach(t, RenderTargetInfo(attachment, "RB_" \o renderbuffer_id, 0))

FramebufferTracker_process_clear(t, e) ==
    LET mask == get_enum_value(e, "mask")
        clear_info == [ clear_color |-> In("COLOR", mask), clear_depth |-> In("DEPTH", mask),
                        clear_stencil |-> In("STENCIL", mask) ]
    IN  IF t.current_fbo \in DOMAIN t.framebuffers
        THEN [t EXCEPT !.framebuffers[t.current_fbo].clear_ops = Append(@, clear_info)]
        ELSE t

\* "enums:bufs" holds the values of the enum elements whose name starts with bufs.
FramebufferTracker_process_draw_buffers(t, e) ==
    LET buffers == IF Has(e, "enums:bufs") THEN e.args["enums:bufs"] ELSE <<>>
    IN  IF t.current_fbo \notin DOMAIN t.framebuffers THEN t
        ELSE IF buffers # <<>>
        THEN [t EXCEPT !.framebuffers[t.current_fbo].draw_buffers = buffers]
        ELSE t

\* process_chunk that takes every name it does not know for a bind.
FramebufferTracker_process_chunk_default_bind(t, e) ==
    IF e.name \in {"glFramebufferTexture2D", "glFramebufferTexture"}
    THEN FramebufferTracker_process_framebuffer_texture(t, e)
    ELSE IF e.name = "glFramebufferRenderbuffer"
         THEN FramebufferTracker_process_framebuffer_renderbuffer(t, e)
    ELSE IF e.name = "glClear" THEN FramebufferTracker_process_clear(t, e)
    ELSE IF e.name = "glDrawBuffers" THEN FramebufferTracker_process_draw_buffers(t, e)
    ELSE FramebufferTracker_process_bind_framebuffer(t, e)

FramebufferTracker_process_chunk(t, e) ==
    IF e.name = "glBindFramebuffer" THEN FramebufferTracker_process_bind_framebuffer(t, e)
    ELSE IF e.name \in {"glFramebufferTexture2D", "glFramebufferTexture"}
         THEN FramebufferTracker_process_framebuffer_texture(t, e)
    ELSE IF e.name = "glFramebufferRenderbuffer"
         THEN FramebufferTracker_process_framebuffer_renderbuffer(t, e)
    ELSE IF e.name = "glClear" THEN FramebufferTracker_process_clear(t, e)
    ELSE IF e.name = "glDrawBuffers" THEN FramebufferTracker_process_draw_buffers(t, e)
    ELSE t

\* ------------------------------------------------------------------------
\* RDCAnalyzerCMD._extract_draws_with_state
\* ------------------------------------------------------------------------

\* The names of the model that re.match finds to start with a draw pattern.
is_draw_call(name) ==
    name \in { "glDrawArrays", "glDrawElements", "glDrawElementsInstanced",
               "glDrawArraysInstanced", "glDrawRangeElements", "glMultiDrawArrays",
               "glMultiDrawElements", "glDrawElementsBaseVertex" }

\* int(chunk.get(attr, "0")) raises ValueError on a text that is no numeral.
chunk_int_raises(e, attr) == Has(e, attr) /\ ~IsIntText(e.args[attr])

chunk_int(e, attr) == IF Has(e, attr) THEN IntTexts[e.args[attr]] ELSE 0

\* bound_textures[unit] = tex_id after the list was padded with "" up to unit.
set_bound_texture(bt, unit, tex_id) ==
    [i \in 1..(IF Len(bt) <= unit THEN unit + 1 ELSE Len(bt)) |->
        IF i = unit + 1 THEN tex_id ELSE IF i <= Len(bt) THEN bt[i] ELSE ""]

\* The locals with a program bind that lacks its program element clearing
\* current_program.
track_bindings_clears_program(x, e) ==
    IF e.name = "glUseProgram" THEN
        [x EXCEPT !.current_program = get_resource_id(e, "program")]
    ELSE IF e.name = "glActiveTexture" THEN
        IF Has(e, "enum:texture") /\ e.args["enum:texture"] \in DOMAIN TrailingDigits
        THEN [x EXCEPT !.current_texture_unit = TrailingDigits[e.args["enum:texture"]]]
        ELSE x
    ELSE IF e.name = "glBindTexture" THEN
        IF get_resource_id(e, "texture") # ""
        THEN [x EXCEPT !.bound_textures =
                  set_bound_texture(@, x.current_texture_unit, get_resource_id(e, "texture"))]
        ELSE x
    ELSE x

\* The locals with a texture bind of an empty id clearing the active unit.
track_bindings_unbinds_on_empty(x, e) ==
    IF e.name = "glUseProgram" THEN
        IF Has(e, "ResourceId:program")
        THEN [x EXCEPT !.current_program = get_resource_id(e, "program")]
        ELSE x
    ELSE IF e.name = "glActiveTexture" THEN
        IF Has(e, "enum:texture") /\ e.args["enum:texture"] \in DOMAIN TrailingDigits
        THEN [x EXCEPT !.current_texture_unit = TrailingDigits[e.args["enum:texture"]]]
        ELSE x
    ELSE IF e.name = "glBindTexture" THEN
        IF Has(e, "ResourceId:texture")
        THEN [x EXCEPT !.bound_textures =
                  set_bound_texture(@, x.current_texture_unit, get_resource_id(e, "texture"))]
        ELSE x
    ELSE x

\* The locals current_program, current_texture_unit and bound_textures after
\* the if/elif chain on the chunk's name.
track_bindings(x, e) ==
    IF e.name = "glUseProgram" THEN
        IF Has(e, "ResourceId:program")
        THEN [x EXCEPT !.current_program = get_resource_id(e, "program")]
        ELSE x
    ELSE IF e.name = "glActiveTexture" THEN
        IF Has(e, "enum:texture") /\ e.args["enum:texture"] \in DOMAIN TrailingDigits
        THEN [x EXCEPT !.current_texture_unit = TrailingDigits[e.args["enum:texture"]]]
        ELSE x
    ELSE IF e.name = "glBindTexture" THEN
        IF get_resource_id(e, "texture") # ""
        THEN [x EXCEPT !.bound_textures =
                  set_bound_texture(@, x.current_texture_unit, get_resource_id(e, "texture"))]
        ELSE x
    ELSE x

\* count_val of the draw chunk: <<>> without a count element or when int() raises.
draw_count(e) ==
    IF Has(e, "int:count") /\ IsIntText(e.args["int:count"])
    THEN <<IntTexts[e.args["int:count"]]>>
    ELSE <<>>

draw_instance_count(e) ==
    IF In("Instanced", e.name) THEN
        LET key == IF Has(e, "int:instancecount") THEN "int:instancecount" ELSE "int:primcount"
        IN  IF Has(e, key) /\ IsIntText(e.args[key]) THEN IntTexts[e.args[key]] ELSE 1
    ELSE 1

draw_marker(e) ==
    IF Has(e, "string:Label") /\ e.args["string:Label"] # NoneText
    THEN e.args["string:Label"]
    ELSE ""

SelectSeq_nonempty(bt) == SelectSeq(bt, LAMBDA t : t # "")

\* The record with a negative count stored as 0.
DrawCallInfo_clamps_count(x, e) ==
    [ draw_id |-> x.draw_id,
      event_id |-> chunk_int(e, "@id"),
      name |-> e.name,
      duration_ns |-> chunk_int(e, "@duration"),
      vertex_count |-> IF draw_count(e) # <<>> /\ ~In("Elements", e.name) /\ draw_count(e)[1] > 0
                       THEN draw_count(e)[1] ELSE 0,
      index_count |-> IF draw_count(e) # <<>> /\ In("Elements", e.name) /\ draw_count(e)[1] > 0
                      THEN draw_count(e)[1] ELSE 0,
      instance_count |-> draw_instance_count(e),
      marker |-> draw_marker(e),
      state |-> RenderStateTracker_get_current_state(x.state_tracker),
      bound_textures |-> SelectSeq_nonempty(x.bound_textures),
      shader_program |-> x.current_program,
      fbo_id |-> x.fbo_tracker.current_fbo ]

\* The record with the ordinal counted from 0.
DrawCallInfo_zero_based(x, e) ==
    [ draw_id |-> x.draw_id - 1,
      event_id |-> chunk_int(e, "@id"),
      name |-> e.name,
      duration_ns |-> chunk_int(e, "@duration"),
      vertex_count |-> IF draw_count(e) # <<>> /\ ~In("Elements", e.name)
                       THEN draw_count(e)[1] ELSE 0,
      index_count |-> IF draw_count(e) # <<>> /\ In("Elements", e.name)
                      THEN draw_count(e)[1] ELSE 0,
      instance_count |-> draw_instance_count(e),
      marker |-> draw_marker(e),
      state |-> RenderStateTracker_get_current_state(x.state_tracker),
      bound_textures |-> SelectSeq_nonempty(x.bound_textures),
      shader_program |-> x.current_program,
      fbo_id |-> x.fbo_tracker.current_fbo ]

\* The DrawCallInfo appended for draw chunk e in state x (draw_id already incremented).
DrawCallInfo(x, e) ==
    [ draw_id |-> x.draw_id,
      event_id |-> chunk_int(e, "@id"),
      name |-> e.name,
      duration_ns |-> chunk_int(e, "@duration"),
      vertex_count |-> IF draw_count(e) # <<>> /\ ~In("Elements", e.name)
                       THEN draw_count(e)[1] ELSE 0,
      index_count |-> IF draw_count(e) # <<>> /\ In("Elements", e.name)
                      THEN draw_count(e)[1] ELSE 0,
      instance_count |-> draw_instance_count(e),
      marker |-> draw_marker(e),
      state |-> RenderStateTracker_get_current_state(x.state_tracker),
      bound_textures |-> SelectSeq_nonempty(x.bound_textures),
      shader_program |-> x.current_program,
      fbo_id |-> x.fbo_tracker.current_fbo ]

\* The iteration with a draw that unbinds the textures it used.
extract_chunk_clears_bindings(x, e) ==
    IF RenderStateTracker_raises(e) THEN [x EXCEPT !.raised = TRUE]
    ELSE
        LET x1 == [x EXCEPT
                      !.state_tracker = RenderStateTracker_process_chunk(@, e),
                      !.sampler_tracker = SamplerTracker_process_chunk(@, e),
                      !.fbo_tracker = FramebufferTracker_process_chunk(@, e)]
            x2 == track_bindings(x1, e)
        IN
        IF is_draw_call(e.name) THEN
            LET x3 == [x2 EXCEPT !.draw_id = @ + 1] IN
            IF chunk_int_raises(e, "@id") \/ chunk_int_raises(e, "@duration")
            THEN [x3 EXCEPT !.raised = TRUE]
            ELSE [x3 EXCEPT !.draws = Append(@, DrawCallInfo(x3, e)), !.bound_textures = <<>>]
        ELSE x2

\* The iteration with records that share the extractor's list of bound
\* textures instead of holding a copy of it.
extract_chunk_shares_textures(x, e) ==
    IF RenderStateTracker_raises(e) THEN [x EXCEPT !.raised = TRUE]
    ELSE
        LET x1 == [x EXCEPT
                      !.state_tracker = RenderStateTracker_process_chunk(@, e),
                      !.sampler_tracker = SamplerTracker_process_chunk(@, e),
                      !.fbo_tracker = FramebufferTracker_process_chunk(@, e)]
            x2 == track_bindings(x1, e)
            shared == [k \in 1..Len(x2.draws) |->
                          [x2.draws[k] EXCEPT !.bound_textures = SelectSeq_nonempty(x2.bound_textures)]]
        IN
        IF is_draw_call(e.name) THEN
            LET x3 == [x2 EXCEPT !.draw_id = @ + 1] IN
            IF chunk_int_raises(e, "@id") \/ chunk_int_raises(e, "@duration")
            THEN [x3 EXCEPT !.raised = TRUE]
            ELSE [x3 EXCEPT !.draws = Append(shared, DrawCallInfo(x3, e))]
        ELSE [x2 EXCEPT !.draws = shared]

\* One iteration of the loop over the chunks.  x holds the trackers and the
\* locals; raised tells that the iteration ended in an exception.
extract_chunk(x, e) ==
    IF RenderStateTracker_raises(e) THEN [x EXCEPT !.raised = TRUE]
    ELSE
        LET x1 == [x EXCEPT
                      !.state_tracker = RenderStateTracker_process_chunk(@, e),
                      !.sampler_tracker = SamplerTracker_process_chunk(@, e),
                      !.fbo_tracker = FramebufferTracker_process_chunk(@, e)]
            x2 == track_bindings(x1, e)
        IN
        IF is_draw_call(e.name) THEN
            LET x3 == [x2 EXCEPT !.draw_id = @ + 1] IN
            IF chunk_int_raises(e, "@id") \/ chunk_int_raises(e, "@duration")
            THEN [x3 EXCEPT !.raised = TRUE]
            ELSE [x3 EXCEPT !.draws = Append(@, DrawCallInfo(x3, e))]
        ELSE x2

\* The state _parse_xml hands to _extract_draws_with_state.
extract_init ==
    [ state_tracker |-> RenderStateTracker_reset,
      sampler_tracker |-> SamplerTracker_init,
      fbo_tracker |-> FramebufferTracker_init,
      current_program |-> "",
      bound_textures |-> <<>>,
      current_texture_unit |-> 0,
      draw_id |-> 0,
      draws |-> <<>>,
      raised |-> FALSE ]

\* ------------------------------------------------------------------------
\* RDCAnalyzerCMD._extract_passes_with_fbo
\* ------------------------------------------------------------------------

LargePassThreshold == 200

PassInfo(name, pass_index, fbo_id) ==
    [ name |-> name, pass_index |-> pass_index, draw_calls |-> <<>>, duration_ms |-> 0,
      fbo_id |-> fbo_id, input_textures |-> <<>>, output_textures |-> <<>> ]

\* need_new_pass without the test of the framebuffer.
need_new_pass_ignores_fbo(acc, draw) ==
    IF acc.passes = <<>> THEN TRUE
    ELSE IF draw.marker # "" /\ Last(acc.passes).name # draw.marker THEN TRUE
    ELSE IF Len(Last(acc.passes).draw_calls) >= LargePassThreshold THEN TRUE
    ELSE FALSE

\* need_new_pass without the test of the marker.
need_new_pass_ignores_marker(acc, draw) ==
    IF acc.passes = <<>> THEN TRUE
    ELSE IF draw.fbo_id # "" /\ draw.fbo_id # acc.current_fbo THEN TRUE
    ELSE IF Len(Last(acc.passes).draw_calls) >= LargePassThreshold THEN TRUE
    ELSE FALSE

\* need_new_pass with the cap tested by > instead of >=.
need_new_pass_cap_late(acc, draw) ==
    IF acc.passes = <<>> THEN TRUE
    ELSE IF draw.fbo_id # "" /\ draw.fbo_id # acc.current_fbo THEN TRUE
    ELSE IF draw.marker # "" /\ Last(acc.passes).name # draw.marker THEN TRUE
    ELSE IF Len(Last(acc.passes).draw_calls) > LargePassThreshold THEN TRUE
    ELSE FALSE

\* current_pass is the last element of passes (None while passes is empty).
need_new_pass(acc, draw) ==
    IF acc.passes = <<>> THEN TRUE
    ELSE IF draw.fbo_id # "" /\ draw.fbo_id # acc.current_fbo THEN TRUE
    ELSE IF draw.marker # "" /\ Last(acc.passes).name # draw.marker THEN TRUE
    ELSE IF Len(Last(acc.passes).draw_calls) >= LargePassThreshold THEN TRUE
    ELSE FALSE

\* The name with the framebuffer's name tried before the marker.
pass_name_fbo_first(draw, pass_counter, framebuffers) ==
    IF draw.fbo_id # "" /\ draw.fbo_id # "0" /\ draw.fbo_id \in DOMAIN framebuffers
       /\ framebuffers[draw.fbo_id].name # ""
    THEN framebuffers[draw.fbo_id].name
    ELSE IF draw.marker # "" THEN draw.marker
    ELSE IF draw.fbo_id # "" /\ draw.fbo_id # "0"
    THEN "Pass_" \o ToString(pass_counter) \o "_FBO_" \o draw.fbo_id
    ELSE "Pass_" \o ToString(pass_counter)

\* The name with the pass counter appended to the marker of every pass after
\* the first.
pass_name_numbers_marker(draw, pass_counter, framebuffers) ==
    IF draw.marker # "" THEN
        IF pass_counter = 1 THEN draw.marker
        ELSE draw.marker \o "_" \o ToString(pass_counter)
    ELSE IF draw.fbo_id # "" /\ draw.fbo_id # "0" THEN
        IF draw.fbo_id \in DOMAIN framebuffers /\ framebuffers[draw.fbo_id].name # ""
        THEN framebuffers[draw.fbo_id].name
        ELSE "Pass_" \o ToString(pass_counter) \o "_FBO_" \o draw.fbo_id
    ELSE "Pass_" \o ToString(pass_counter)

pass_name(draw, pass_counter, framebuffers) ==
    IF draw.marker # "" THEN draw.marker
    ELSE IF draw.fbo_id # "" /\ draw.fbo_id # "0" THEN
        IF draw.fbo_id \in DOMAIN framebuffers /\ framebuffers[draw.fbo_id].name # ""
        THEN framebuffers[draw.fbo_id].name
        ELSE "Pass_" \o ToString(pass_counter) \o "_FBO_" \o draw.fbo_id
    ELSE "Pass_" \o ToString(pass_counter)

\* The addition with the pass's duration overwritten by the draw's.
add_draw_keeps_last_duration(ps, draw) ==
    [ps EXCEPT ![Len(ps)].draw_calls = Append(@, draw),
               ![Len(ps)].duration_ms = draw.duration_ns]

\* Add draw to current pass.  duration_ms is kept in nanoseconds (1e-6 ms).
add_draw(ps, draw) ==
    [ps EXCEPT ![Len(ps)].draw_calls = Append(@, draw),
               ![Len(ps)].duration_ms = @ + draw.duration_ns]

\* The iteration with the draw that opens a pass left out of it.
segment_draw_drops_first(acc, draw, framebuffers) ==
    IF acc.passes = <<>> \/ (draw.fbo_id # "" /\ draw.fbo_id # acc.current_fbo)
       \/ (draw.marker # "" /\ Last(acc.passes).name # draw.marker)
       \/ Len(Last(acc.passes).draw_calls) >= LargePassThreshold
    THEN
        LET counter == acc.pass_counter + 1
            new == PassInfo(pass_name(draw, counter, framebuffers), counter - 1, draw.fbo_id)
        IN  [ passes |-> Append(acc.passes, new),
              pass_counter |-> counter,
              current_fbo |-> draw.fbo_id ]
    ELSE [acc EXCEPT !.passes = add_draw(@, draw)]

\* One iteration of the loop over the draws.
segment_draw(acc, draw, framebuffers) ==
    IF need_new_pass(acc, draw) THEN
        LET counter == acc.pass_counter + 1
            new == PassInfo(pass_name(draw, counter, framebuffers), counter - 1, draw.fbo_id)
        IN  [ passes |-> add_draw(Append(acc.passes, new), draw),
              pass_counter |-> counter,
              current_fbo |-> draw.fbo_id ]
    ELSE [acc EXCEPT !.passes = add_draw(@, draw)]

\* for draw in draws, for the draws at positions lo..hi.  The range is walked
\* in two halves, first lo..mid and then mid+1..hi: the same walk in order.
\* Testing the first half's result makes TLC evaluate it before the second
\* half starts, which keeps the depth of the evaluation logarithmic; a
\* non-empty range always leaves pass_counter > 0.
RECURSIVE segment_loop(_, _, _, _, _)
segment_loop(acc, ds, lo, hi, framebuffers) ==
    IF lo > hi THEN acc
    ELSE IF lo = hi THEN segment_draw(acc, ds[lo], framebuffers)
    ELSE LET mid == (lo + hi) \div 2
             first == segment_loop(acc, ds, lo, mid, framebuffers)
         IN  IF first.pass_counter > 0
             THEN segment_loop(first, ds, mid + 1, hi, framebuffers)
             ELSE first

\* The final numbering started at 1.
set_pass_index_from_one(ps) == [i \in 1..Len(ps) |-> [ps[i] EXCEPT !.pass_index = i]]

\* for i, p in enumerate(passes): p.pass_index = i
set_pass_index(ps) == [i \in 1..Len(ps) |-> [ps[i] EXCEPT !.pass_index = i - 1]]

extract_passes_with_fbo(ds, framebuffers) ==
    set_pass_index(
        segment_loop([passes |-> <<>>, pass_counter |-> 0, current_fbo |-> ""],
                     ds, 1, Len(ds), framebuffers).passes)

\* ------------------------------------------------------------------------
\* PassDependencyAnalyzer.analyze
\* ------------------------------------------------------------------------

\* The outputs recorded with the first pass that writes a texture kept as
\* its owner.
RECURSIVE record_outputs_first_owner(_, _, _)
record_outputs_first_owner(a, i, atts) ==
    IF atts = <<>> THEN a
    ELSE record_outputs_first_owner(
            [ a EXCEPT !.output_map = IF Head(atts).texture_id \in DOMAIN @ THEN @
                                      ELSE DictPut(@, Head(atts).texture_id,
                                                   <<i, a.passes[i + 1].name>>),
                       !.passes[i + 1].output_textures = Append(@, Head(atts).texture_id) ],
            i, Tail(atts))

\* output_map[texture_id] = (i, name) and the append to output_textures, for
\* the attachments atts in order; i is the 0-based position of the pass.
RECURSIVE record_outputs(_, _, _)
record_outputs(a, i, atts) ==
    IF atts = <<>> THEN a
    ELSE record_outputs(
            [ a EXCEPT !.output_map = DictPut(@, Head(atts).texture_id, <<i, a.passes[i + 1].name>>),
                       !.passes[i + 1].output_textures = Append(@, Head(atts).texture_id) ],
            i, Tail(atts))

\* The first loop with outputs recorded only for the first pass of each
\* framebuffer.
RECURSIVE build_output_map_first_pass_only(_, _, _)
build_output_map_first_pass_only(a, i, framebuffers) ==
    IF i >= Len(a.passes) THEN a
    ELSE
        LET fbo_id == a.passes[i + 1].fbo_id
            a1 == IF fbo_id \in DOMAIN framebuffers
                     /\ \A j \in 1..i : a.passes[j].fbo_id # fbo_id
                  THEN record_outputs(a, i, framebuffers[fbo_id].color_attachments
                                            \o framebuffers[fbo_id].depth_attachment)
                  ELSE a
        IN  build_output_map_first_pass_only(a1, i + 1, framebuffers)

\* The first loop: for i, pass_info in enumerate(passes), from position i on.
RECURSIVE build_output_map(_, _, _)
build_output_map(a, i, framebuffers) ==
    IF i >= Len(a.passes) THEN a
    ELSE
        LET fbo_id == a.passes[i + 1].fbo_id
            a1 == IF fbo_id \in DOMAIN framebuffers
                  THEN record_outputs(a, i, framebuffers[fbo_id].color_attachments
                                            \o framebuffers[fbo_id].depth_attachment)
                  ELSE a
        IN  build_output_map(a1, i + 1, framebuffers)

PassDependency(src_name, src_index, pass_info_name, i, tex_id) ==
    [ source_pass |-> src_name, source_pass_index |-> src_index,
      target_pass |-> pass_info_name, target_pass_index |-> i,
      resource_type |-> "TEXTURE", resource_id |-> tex_id,
      dependency_type |-> "READ_AFTER_WRITE" ]

\* The comparison with <= in place of <.
is_forward_or_same(src_index, i) == src_index <= i

\* if src_index < i: only forward dependencies are tracked.
is_forward(src_index, i) == src_index < i

\* The body of the innermost loop with a texture recorded once per pass.
check_input_once(a, i, tex_id) ==
    IF tex_id \in DOMAIN a.output_map /\ is_forward(a.output_map[tex_id][1], i)
       /\ \A k \in 1..Len(a.passes[i + 1].input_textures) :
             a.passes[i + 1].input_textures[k] # tex_id
    THEN [ a EXCEPT !.passes[i + 1].input_textures = Append(@, tex_id),
                    !.dependencies = Append(@, PassDependency(a.output_map[tex_id][2],
                                                              a.output_map[tex_id][1],
                                                              a.passes[i + 1].name, i, tex_id)) ]
    ELSE a

\* The body of the innermost loop with the edge drawn from the latest pass
\* before i that has the texture as an output.
check_input_latest_earlier_writer(a, i, tex_id) ==
    LET ws == { j \in 0..(i - 1) :
                  \E k \in 1..Len(a.passes[j + 1].output_textures) :
                      a.passes[j + 1].output_textures[k] = tex_id }
        src == CHOOSE w \in ws : \A v \in ws : v <= w
    IN  IF ws # {}
        THEN [ a EXCEPT !.passes[i + 1].input_textures = Append(@, tex_id),
                        !.dependencies = Append(@, PassDependency(a.passes[src + 1].name, src,
                                                                  a.passes[i + 1].name, i, tex_id)) ]
        ELSE a

\* The body of the innermost loop, for texture tex_id bound by a draw of pass i.
check_input(a, i, tex_id) ==
    IF tex_id \in DOMAIN a.output_map /\ is_forward(a.output_map[tex_id][1], i)
    THEN [ a EXCEPT !.passes[i + 1].input_textures = Append(@, tex_id),
                    !.dependencies = Append(@, PassDependency(a.output_map[tex_id][2],
                                                              a.output_map[tex_id][1],
                                                              a.passes[i + 1].name, i, tex_id)) ]
    ELSE a

RECURSIVE check_textures(_, _, _)
check_textures(a, i, texs) ==
    IF texs = <<>> THEN a ELSE check_textures(check_input(a, i, Head(texs)), i, Tail(texs))

\* for draw in pass_info.draw_calls, for the draws at positions lo..hi of pass i,
\* walked in two halves like the segmenter's loop.
RECURSIVE check_draws(_, _, _, _)
check_draws(a, i, lo, hi) ==
    IF lo > hi THEN a
    ELSE IF lo = hi
    THEN check_textures(a, i, a.passes[i + 1].draw_calls[lo].bound_textures)
    ELSE LET mid == (lo + hi) \div 2
             first == check_draws(a, i, lo, mid)
         IN  IF Len(first.dependencies) >= 0
             THEN check_draws(first, i, mid + 1, hi)
             ELSE first

\* The second loop, from position i on.
RECURSIVE check_passes(_, _)
check_passes(a, i) ==
    IF i >= Len(a.passes) THEN a
    ELSE check_passes(check_draws(a, i, 1, Len(a.passes[i + 1].draw_calls)), i + 1)

\* The passes as analyze leaves them, its output_map and the list it returns.
PassDependencyAnalyzer_analyze(ps, framebuffers) ==
    check_passes(
        build_output_map([passes |-> ps, output_map |-> [t \in {} |-> <<>>], dependencies |-> <<>>],
                         0, framebuffers),
        0)

\* ------------------------------------------------------------------------
\* PassSwitchesDetector.extract_switch_info (detectors/passes/switches.py)
\* and PassSwitchInfo (models.py)
\* ------------------------------------------------------------------------

\* The three placeholders: no framebuffer (None), no textures, no shader (None).
extract_fbo(draw) == NoneText

extract_bound_textures(draw) == {}

get_shader_name(draw) == NoneText

\* PassSwitchInfo(...) after its validator calculate_total ran.
PassSwitchInfo(marker_switches, fbo_switches, texture_bind_changes, shader_changes, total) ==
    [ marker_switches |-> marker_switches,
      fbo_switches |-> fbo_switches,
      texture_bind_changes |-> texture_bind_changes,
      shader_changes |-> shader_changes,
      total |-> IF total = 0
                THEN marker_switches + fbo_switches + texture_bind_changes + shader_changes
                ELSE total ]

\* The iteration that counts a marker only when it replaces an earlier one.
switch_draw_skips_first(acc, draw) ==
    LET a1 == IF acc.last_marker # NoneText /\ draw.marker # acc.last_marker
              THEN [acc EXCEPT !.marker_switches = @ + 1, !.last_marker = draw.marker]
              ELSE [acc EXCEPT !.last_marker = draw.marker]
        a2 == IF extract_fbo(draw) # a1.last_fbo
              THEN [a1 EXCEPT !.fbo_switches = @ + 1, !.last_fbo = extract_fbo(draw)]
              ELSE a1
        cur == extract_bound_textures(draw)
        a3 == IF cur # a2.last_textures
              THEN [a2 EXCEPT !.texture_bind_changes =
                                  @ + Cardinality((cur \ a2.last_textures) \cup (a2.last_textures \ cur)),
                              !.last_textures = cur]
              ELSE a2
    IN  IF get_shader_name(draw) # a3.last_shader
        THEN [a3 EXCEPT !.shader_changes = @ + 1, !.last_shader = get_shader_name(draw)]
        ELSE a3

\* One iteration of the loop over the draws; None is NoneText.
switch_draw(acc, draw) ==
    LET a1 == IF draw.marker # acc.last_marker
              THEN [acc EXCEPT !.marker_switches = @ + 1, !.last_marker = draw.marker]
              ELSE acc
        a2 == IF extract_fbo(draw) # a1.last_fbo
              THEN [a1 EXCEPT !.fbo_switches = @ + 1, !.last_fbo = extract_fbo(draw)]
              ELSE a1
        cur == extract_bound_textures(draw)
        a3 == IF cur # a2.last_textures
              THEN [a2 EXCEPT !.texture_bind_changes =
                                  @ + Cardinality((cur \ a2.last_textures) \cup (a2.last_textures \ cur)),
                              !.last_textures = cur]
              ELSE a2
    IN  IF get_shader_name(draw) # a3.last_shader
        THEN [a3 EXCEPT !.shader_changes = @ + 1, !.last_shader = get_shader_name(draw)]
        ELSE a3

RECURSIVE switch_loop(_, _)
switch_loop(acc, ds) ==
    IF ds = <<>> THEN acc ELSE switch_loop(switch_draw(acc, Head(ds)), Tail(ds))

extract_switch_info(ds) ==
    LET acc == switch_loop([ marker_switches |-> 0, fbo_switches |-> 0,
                             texture_bind_changes |-> 0, shader_changes |-> 0,
                             last_marker |-> NoneText, last_fbo |-> NoneText,
                             last_textures |-> {}, last_shader |-> NoneText ], ds)
    IN  PassSwitchInfo(acc.marker_switches, acc.fbo_switches, acc.texture_bind_changes,
                       acc.shader_changes, 0)

\* ------------------------------------------------------------------------
\* Bounds and inputs
\* ------------------------------------------------------------------------

MaxDraws == 2          \* draw records of an extraction
MaxAttach == 2         \* color attachments and clear operations of one framebuffer
MaxSegDraws == 3       \* length of the short draw lists given to the segmenter
MaxRun == 401          \* length of the uniform runs of draws given to the segmenter

NoChunk == Chunk("", NoArgs)

BindFramebuffer(id) == Chunk("glBindFramebuffer", "ResourceId:framebuffer" :> id)

FramebufferTexture2D(attachment, tex) ==
    Chunk("glFramebufferTexture2D",
          ("enum:attachment" :> attachment) @@ ("ResourceId:texture" :> tex) @@ ("int:level" :> "0"))

BindTexture(tex) == Chunk("glBindTexture", "ResourceId:texture" :> tex)

ActiveTexture(unit) == Chunk("glActiveTexture", "enum:texture" :> unit)

Enable(cap) == Chunk("glEnable", "enum:cap" :> cap)

Disable(cap) == Chunk("glDisable", "enum:cap" :> cap)

DrawArrays(id, count) ==
    Chunk("glDrawArrays", ("@id" :> id) @@ ("@duration" :> "5000000") @@ ("int:count" :> count))

\* The chunks of the extraction runs of Spec: framebuffer binds with and
\* without a target, draws with well-formed, absent and malformed attributes,
\* and calls no tracker knows.
BindEvents ==
    { BindFramebuffer("11"), BindFramebuffer(NoneText), Chunk("glBindFramebuffer", NoArgs) }

DrawEvents ==
    { DrawArrays("1", "3"),
      Chunk("glDrawElements", ("@id" :> "2") @@ ("int:count" :> "6") @@ ("string:Label" :> "Opaque")),
      Chunk("glDrawArrays", "@id" :> "3"),
      Chunk("glDrawElements", ("@id" :> "3") @@ ("int:count" :> "abc")),
      Chunk("glDrawElementsInstanced", ("int:count" :> NoneText) @@ ("int:primcount" :> "2")),
      Chunk("glDrawArrays", ("@id" :> "abc")),
      Chunk("glDrawArrays", ("@id" :> "3") @@ ("@duration" :> "")) }

OtherEvents ==
    { Chunk("glDepthMask", "bool:flag" :> NoneText),
      Chunk("glFlush", NoArgs) }

Events == BindEvents \cup DrawEvents \cup OtherEvents

\* ------------------------------------------------------------------------
\* The run: extraction chunk by chunk, segmentation, dependency analysis
\* ------------------------------------------------------------------------

\* The trackers and locals of the extraction as one record, and back.
extract_state ==
    [ state_tracker |-> state_tracker, sampler_tracker |-> sampler_tracker,
      fbo_tracker |-> fbo_tracker, current_program |-> current_program,
      bound_textures |-> bound_textures, current_texture_unit |-> current_texture_unit,
      draw_id |-> draw_id, draws |-> draws, raised |-> pc = "raised" ]

SetExtractState(x) ==
    /\ state_tracker' = x.state_tracker
    /\ sampler_tracker' = x.sampler_tracker
    /\ fbo_tracker' = x.fbo_tracker
    /\ current_program' = x.current_program
    /\ bound_textures' = x.bound_textures
    /\ current_texture_unit' = x.current_texture_unit
    /\ draw_id' = x.draw_id
    /\ draws' = x.draws
    /\ pc' = IF x.raised THEN "raised" ELSE "extract"

WithinBounds(x) ==
    /\ Len(x.draws) <= MaxDraws
    /\ \A f \in DOMAIN x.fbo_tracker.framebuffers :
          /\ Len(x.fbo_tracker.framebuffers[f].color_attachments) <= MaxAttach
          /\ Len(x.fbo_tracker.framebuffers[f].clear_ops) <= MaxAttach

\* What the history records of chunk e: the chunk, the target of the last
\* framebuffer bind (read off the chunk, "0" for a bind without a target),
\* and that target at every draw chunk.
Observe(e) ==
    LET target == IF Has(e, "ResourceId:framebuffer")
                     /\ e.args["ResourceId:framebuffer"] \notin {NoneText, ""}
                  THEN e.args["ResourceId:framebuffer"] ELSE "0"
        bind == IF e.name = "glBindFramebuffer" THEN target ELSE h.last_bind
    IN  [ h EXCEPT !.last = e,
                   !.last_bind = bind,
                   !.bind_at_draw = IF is_draw_call(e.name) THEN Append(@, bind) ELSE @ ]

\* One iteration of the loop of _extract_draws_with_state, on chunk e.
ProcessChunk(e) ==
    /\ pc = "extract"
    /\ WithinBounds(extract_chunk(extract_state, e))
    /\ SetExtractState(extract_chunk(extract_state, e))
    /\ h' = Observe(e)
    /\ UNCHANGED <<passes, dependencies, output_map, runs, snap, switch_info>>

\* The log goes on with any chunk of Events.
Feed ==
    /\ chunks = <<>>
    /\ \E e \in Events : ProcessChunk(e)
    /\ UNCHANGED chunks

\* The next chunk of a given log.
Replay ==
    /\ chunks # <<>>
    /\ ProcessChunk(Head(chunks))
    /\ chunks' = Tail(chunks)

\* The log is at its end: _parse_xml groups the draws into passes.
Segment ==
    /\ pc = "extract"
    /\ chunks = <<>>
    /\ passes' = extract_passes_with_fbo(draws, fbo_tracker.framebuffers)
    /\ pc' = "segmented"
    /\ UNCHANGED <<chunks, trackers, extractor_locals, dependencies, output_map, runs, snap, switch_info, h>>

\* _parse_xml analyzes the pass dependencies.
Analyze ==
    /\ pc = "segmented"
    /\ LET a == PassDependencyAnalyzer_analyze(passes, fbo_tracker.framebuffers)
       IN  /\ passes' = a.passes
           /\ dependencies' = a.dependencies
           /\ output_map' = a.output_map
    /\ pc' = "done"
    /\ UNCHANGED <<chunks, trackers, extractor_locals, runs, snap, switch_info, h>>

NoSnapshot == RenderStateTracker_get_current_state(RenderStateTracker_reset)

\* output_map before analyze() ran, and the runs of a specification without any.
NoOutputMap == [t \in {} |-> <<>>]

\* switch_info before extract_switch_info() was called.
NoSwitchInfo == PassSwitchInfo(0, 0, 0, 0, 0)

NoRuns == <<>>

InitHistory ==
    [ last |-> NoChunk, last_bind |-> "0", bind_at_draw |-> <<>>, log |-> <<>>,
      toggle |-> [cap |-> "", phase |-> 0, snap |-> NoSnapshot],
      snapshots |-> 0 ]

\* The trackers and the extractor's locals as extract_init gives them.
SetExtractStateInit ==
    /\ state_tracker = extract_init.state_tracker
    /\ sampler_tracker = extract_init.sampler_tracker
    /\ fbo_tracker = extract_init.fbo_tracker
    /\ current_program = extract_init.current_program
    /\ bound_textures = extract_init.bound_textures
    /\ current_texture_unit = extract_init.current_texture_unit
    /\ draw_id = extract_init.draw_id
    /\ draws = extract_init.draws

InitRun ==
    /\ SetExtractStateInit
    /\ passes = <<>>
    /\ dependencies = <<>>
    /\ output_map = NoOutputMap
    /\ runs = NoRuns
    /\ snap = NoSnapshot
    /\ switch_info = NoSwitchInfo

Init ==
    /\ InitRun
    /\ pc = "extract"
    /\ chunks = <<>>
    /\ h = InitHistory

Next == Feed \/ Segment \/ Analyze

Spec == Init /\ [][Next]_vars

\* ------------------------------------------------------------------------
\* The state tracker on its own: events and snapshots
\* ------------------------------------------------------------------------

Capabilities == {"GL_BLEND", "GL_DEPTH_TEST", "GL_STENCIL_TEST", "GL_CULL_FACE", "GL_SCISSOR_TEST"}

BlendFunc(sfactor, dfactor) ==
    Chunk("glBlendFunc", ("enum:sfactor" :> sfactor) @@ ("enum:dfactor" :> dfactor))

TrackerEvents ==
    { Enable(c) : c \in Capabilities } \cup { Disable(c) : c \in Capabilities }
    \cup { Enable("GL_DITHER"), BlendFunc("GL_SRC_ALPHA", "GL_ONE_MINUS_SRC_ALPHA") }

\* The history of enable / disable / enable of one capability: phase 1 after
\* an enable (with the snapshot taken then), 2 after the disable that follows
\* it, 3 after the enable that follows that.
ObserveToggle(e, after) ==
    IF e.name = "glEnable" /\ get_enum_value(e, "cap") \in Capabilities THEN
        IF h.toggle.phase = 2 /\ h.toggle.cap = get_enum_value(e, "cap")
        THEN [h.toggle EXCEPT !.phase = 3]
        ELSE [cap |-> get_enum_value(e, "cap"), phase |-> 1,
              snap |-> RenderStateTracker_get_current_state(after)]
    ELSE IF e.name = "glDisable" /\ h.toggle.phase = 1
            /\ h.toggle.cap = get_enum_value(e, "cap")
    THEN [h.toggle EXCEPT !.phase = 2]
    ELSE [cap |-> "", phase |-> 0, snap |-> NoSnapshot]

\* state_tracker.process_chunk(e)
TrackerEvent ==
    /\ pc = "tracker"
    /\ \E e \in TrackerEvents :
          IF RenderStateTracker_raises(e)
          THEN /\ pc' = "raised"
               /\ h' = [h EXCEPT !.last = e]
               /\ UNCHANGED state_tracker
          ELSE /\ state_tracker' = RenderStateTracker_process_chunk(state_tracker, e)
               /\ h' = [h EXCEPT !.last = e, !.snapshots = 0,
                                 !.toggle = ObserveToggle(e, state_tracker')]
               /\ pc' = pc
    /\ UNCHANGED <<chunks, sampler_tracker, fbo_tracker, extractor_locals, passes,
                   dependencies, output_map, runs, snap, switch_info>>

\* A call that returns the snapshot and then resets the tracker.
Snapshot_resets ==
    /\ pc = "tracker"
    /\ snap' = RenderStateTracker_get_current_state(state_tracker)
    /\ state_tracker' = RenderStateTracker_reset
    /\ h' = [h EXCEPT !.snapshots = IF @ < 2 THEN @ + 1 ELSE @]
    /\ UNCHANGED <<pc, chunks, sampler_tracker, fbo_tracker, extractor_locals, passes,
                   dependencies, output_map, runs, switch_info>>

\* snap = state_tracker.get_current_state(); h counts the calls since the last event.
Snapshot ==
    /\ pc = "tracker"
    /\ snap' = RenderStateTracker_get_current_state(state_tracker)
    /\ h' = [h EXCEPT !.snapshots = IF @ < 2 THEN @ + 1 ELSE @]
    /\ UNCHANGED <<pc, chunks, trackers, extractor_locals, passes, dependencies, output_map, runs,
                   switch_info>>

InitTracker ==
    /\ InitRun
    /\ pc = "tracker"
    /\ chunks = <<>>
    /\ h = InitHistory

NextTracker == TrackerEvent \/ Snapshot

SpecTracker == InitTracker /\ [][NextTracker]_vars

\* ------------------------------------------------------------------------
\* The segmenter and the dependency analyzer on given draw lists
\* ------------------------------------------------------------------------

\* A DrawCallInfo built directly: the fields the dataclass defaults.
TestDraw(id, marker, fbo_id, duration_ns, texs) ==
    [ draw_id |-> id, event_id |-> id, name |-> "glDrawArrays", duration_ns |-> duration_ns,
      vertex_count |-> 0, index_count |-> 0, instance_count |-> 1, marker |-> marker,
      state |-> NoSnapshot, bound_textures |-> texs, shader_program |-> "",
      fbo_id |-> fbo_id ]

\* <<marker, fbo_id, bound_textures>>; get_current_fbo() is "0" or a bound id, never "".
DrawShapes == {"", "Shadow", "Opaque"} \X {"0", "11"} \X {<<>>, <<"T1">>}

\* The draw lists of up to maxlen draws of these shapes.
ShortDrawLists(maxlen) ==
    UNION { { [i \in 1..n |-> TestDraw(i, f[i][1], f[i][2], 2 + Len(f[i][3]) + i, f[i][3])]
              : f \in [1..n -> DrawShapes] } : n \in 0..maxlen }

\* The runs of up to maxlen draws that share one marker and one framebuffer.
UniformRuns(maxlen) ==
    { [i \in 1..n |-> TestDraw(i, m, f, 5, <<>>)] :
        n \in 1..maxlen, m \in {"", "Shadow"}, f \in {"0", "11"} }

\* The registry after glBindFramebuffer(11) with a color and a depth texture
\* attached, and the registry of a fresh tracker (framebuffer 11 unknown).
TrackerWithTargets ==
    FramebufferTracker_process_chunk(
        FramebufferTracker_process_chunk(
            FramebufferTracker_process_chunk(FramebufferTracker_init, BindFramebuffer("11")),
            FramebufferTexture2D("GL_COLOR_ATTACHMENT0", "T1")),
        FramebufferTexture2D("GL_DEPTH_ATTACHMENT", "T2"))

\* The registry after framebuffer 11 also got a second color texture and a
\* stencil texture, and the default framebuffer was bound and given T1.
TrackerWithStencil ==
    LET a == FramebufferTracker_process_chunk(TrackerWithTargets,
                                              FramebufferTexture2D("GL_COLOR_ATTACHMENT1", "T3"))
        b == FramebufferTracker_process_chunk(a, FramebufferTexture2D("GL_STENCIL_ATTACHMENT", "T4"))
        c == FramebufferTracker_process_chunk(b, BindFramebuffer("0"))
    IN  FramebufferTracker_process_chunk(c, FramebufferTexture2D("GL_COLOR_ATTACHMENT0", "T1"))

InitSeg ==
    /\ pc = "extract"
    /\ chunks = <<>>
    /\ state_tracker = RenderStateTracker_reset
    /\ sampler_tracker = SamplerTracker_init
    /\ fbo_tracker \in {TrackerWithTargets, TrackerWithStencil, FramebufferTracker_init}
    /\ current_program = ""
    /\ bound_textures = <<>>
    /\ current_texture_unit = 0
    /\ draws \in ShortDrawLists(MaxSegDraws) \cup UniformRuns(MaxRun)
    /\ draw_id = Len(draws)
    /\ passes = <<>>
    /\ dependencies = <<>>
    /\ output_map = NoOutputMap
    /\ runs = NoRuns
    /\ snap = NoSnapshot
    /\ switch_info = NoSwitchInfo
    /\ h = InitHistory

NextSeg == Segment \/ Analyze

SpecSeg == InitSeg /\ [][NextSeg]_vars

\* ------------------------------------------------------------------------
\* Scenario A as a given log
\* ------------------------------------------------------------------------

ScenarioA(a, b, x, y, select) ==
    << BindFramebuffer(a), FramebufferTexture2D("GL_COLOR_ATTACHMENT0", x), DrawArrays("1", "3"),
       BindFramebuffer(b), FramebufferTexture2D("GL_COLOR_ATTACHMENT0", y) >>
    \o (IF select THEN <<ActiveTexture("GL_TEXTURE0")>> ELSE <<>>)
    \o << BindTexture(x), DrawArrays("2", "3") >>

ScenarioALogs ==
    { ScenarioA(a, b, x, y, select) :
        a \in {"11", "12", "13"}, b \in {"11", "12", "13"},
        x \in {"T1", "T2", "T3"}, y \in {"T1", "T2", "T3"}, select \in BOOLEAN }

InitScenarioA ==
    /\ InitRun
    /\ pc = "extract"
    /\ chunks \in { l \in ScenarioALogs :
                      /\ l[1].args["ResourceId:framebuffer"] # l[4].args["ResourceId:framebuffer"]
                      /\ l[2].args["ResourceId:texture"] # l[5].args["ResourceId:texture"] }
    /\ h = [InitHistory EXCEPT !.log = chunks]

NextScenarioA == Replay \/ Segment \/ Analyze

SpecScenarioA == InitScenarioA /\ [][NextScenarioA]_vars

\* ------------------------------------------------------------------------
\* Logs of mixed events: state changes, bindings, unknown calls and draws
\* ------------------------------------------------------------------------

MaxLog == 3            \* length of the logs of mixed events

UseProgram(program) == Chunk("glUseProgram", "ResourceId:program" :> program)

StencilFunc(func, ref, mask) ==
    Chunk("glStencilFunc", ("enum:func" :> func) @@ ("int:ref" :> ref) @@ ("int:mask" :> mask))

TexParameteri(pname, param) ==
    Chunk("glTexParameteri", ("enum:pname" :> pname) @@ ("enum:param" :> param))

\* Events every tracker and the extractor know, well formed and with an
\* attribute missing, a call nobody knows, and draws.
MixedEvents ==
    { BindFramebuffer("11"),
      FramebufferTexture2D("GL_COLOR_ATTACHMENT0", "T1"),
      BindTexture("T1"),
      ActiveTexture("GL_TEXTURE1"),
      UseProgram("P1"),
      Enable("GL_BLEND"),
      Chunk("glDepthMask", NoArgs),
      StencilFunc("GL_EQUAL", "1", "255"),
      Chunk("glStencilFunc", "enum:func" :> "GL_EQUAL"),
      TexParameteri("GL_TEXTURE_MIN_FILTER", "GL_LINEAR"),
      Chunk("glFlush", NoArgs),
      DrawArrays("1", "3"),
      Chunk("glDrawElements", ("@id" :> "2") @@ ("int:count" :> "6") @@ ("string:Label" :> "Opaque")),
      Chunk("glDrawArrays", "@id" :> "abc") }

\* The logs of 1..maxlen of these events.
MixedLogs(maxlen) == UNION { [1..n -> MixedEvents] : n \in 1..maxlen }

InitEvents ==
    /\ InitRun
    /\ pc = "extract"
    /\ chunks \in MixedLogs(MaxLog)
    /\ h = [InitHistory EXCEPT !.log = chunks]

NextEvents == Replay \/ Segment \/ Analyze

SpecEvents == InitEvents /\ [][NextEvents]_vars

\* ------------------------------------------------------------------------
\* Concurrent analysis runs (analyze_rdc_file, analyze_file, _parse_xml)
\* ------------------------------------------------------------------------

MaxRunLog == 2

RunIds == {1, 2}

\* The events of the captures the runs analyse.
RunEvents ==
    { BindFramebuffer("11"),
      FramebufferTexture2D("GL_COLOR_ATTACHMENT0", "T1"),
      BindTexture("T1"),
      DrawArrays("1", "3") }

RunLogs(maxlen) == UNION { [1..n -> RunEvents] : n \in 1..maxlen }

\* The captures of the other run: one that renders to T1 and reads it back,
\* and one whose draw has an id that is not a number.
OtherLogs ==
    { << BindFramebuffer("11"), FramebufferTexture2D("GL_COLOR_ATTACHMENT0", "T1"),
         DrawArrays("1", "3"), BindFramebuffer("0"), BindTexture("T1"), DrawArrays("2", "3") >>,
      << BindTexture("T1"), Chunk("glDrawArrays", "@id" :> "abc") >> }

\* analyze_rdc_file constructs the analyzer of its run.
analyzer_of(r) == r

\* One frame for all runs: the trackers and the extractor's locals shared.
tracker_owner_shared(r) == 1

\* The trackers and the extractor's locals are locals of the run's own
\* _parse_xml and _extract_draws_with_state frames.
tracker_owner(r) == r

NoData ==
    [ draws |-> <<>>, passes |-> <<>>, samplers |-> <<>>,
      framebuffers |-> [f \in {} |-> <<>>], pass_dependencies |-> <<>> ]

\* What analyze_file gives its caller: the exception, or the RDCAnalysisData.
Raised(error) == [error |-> error, data |-> NoData]

\* The rest of _parse_xml after the extraction left x.
RDCAnalysisData(x) ==
    LET a == PassDependencyAnalyzer_analyze(
                 extract_passes_with_fbo(x.draws, x.fbo_tracker.framebuffers),
                 x.fbo_tracker.framebuffers)
    IN  [ error |-> "",
          data |-> [ draws |-> x.draws,
                     passes |-> a.passes,
                     samplers |-> x.sampler_tracker.samplers,
                     framebuffers |-> x.fbo_tracker.framebuffers,
                     pass_dependencies |-> a.dependencies ] ]

NewRun(log) == [phase |-> "idle", input |-> log, log |-> <<>>, xml |-> 0, result |-> Raised("")]

\* analyze_file up to the conversion: a new temporary directory becomes the
\* analyzer's _temp_dir; the directory it replaces is cleaned up.
RunCreateTemp(r) ==
    /\ runs.run[r].phase = "idle"
    /\ LET a == analyzer_of(r)
           d == runs.made + 1
       IN  runs' = [runs EXCEPT !.made = d,
                                !.dirs = (@ \ {runs.temp[a]}) \cup {d},
                                !.temp[a] = d,
                                !.run[r].xml = d,
                                !.run[r].phase = "created"]

\* _convert_to_xml: renderdoccmd writes output.xml into the run's directory.
RunConvert(r) ==
    /\ runs.run[r].phase = "created"
    /\ runs' = IF runs.run[r].xml \in runs.dirs
               THEN [runs EXCEPT !.run[r].phase = "converted"]
               ELSE [runs EXCEPT !.run[r].phase = "failed",
                                 !.run[r].result = Raised("RuntimeError")]

\* _parse_xml reads the file and constructs the trackers; the extractor
\* initialises its locals.
RunParse(r) ==
    /\ runs.run[r].phase = "converted"
    /\ runs' = IF runs.run[r].xml \in runs.dirs
               THEN [runs EXCEPT !.run[r].phase = "parsing",
                                 !.run[r].log = runs.run[r].input,
                                 !.frames[tracker_owner(r)] = extract_init]
               ELSE [runs EXCEPT !.run[r].phase = "failed",
                                 !.run[r].result = Raised("FileNotFoundError")]

\* One iteration of the extractor's loop in run r.
RunChunk(r) ==
    /\ runs.run[r].phase = "parsing"
    /\ runs.run[r].log # <<>>
    /\ LET x == extract_chunk(runs.frames[tracker_owner(r)], Head(runs.run[r].log))
       IN  runs' = IF x.raised
                   THEN [runs EXCEPT !.frames[tracker_owner(r)] = x,
                                     !.run[r].phase = "failed",
                                     !.run[r].result = Raised("ValueError")]
                   ELSE [runs EXCEPT !.frames[tracker_owner(r)] = x,
                                     !.run[r].log = Tail(@)]

\* The log is at its end: passes, dependencies and the returned data.
RunFinish(r) ==
    /\ runs.run[r].phase = "parsing"
    /\ runs.run[r].log = <<>>
    /\ runs' = [runs EXCEPT !.run[r].phase = "done",
                            !.run[r].result = RDCAnalysisData(runs.frames[tracker_owner(r)])]

\* analyze_rdc_file returns (or the exception leaves it): the analyzer is
\* dropped and its __del__ cleans the temporary directory up.
RunReturn(r) ==
    /\ runs.run[r].phase \in {"done", "failed"}
    /\ runs' = [runs EXCEPT !.run[r].phase = "returned",
                            !.dirs = @ \ {runs.temp[analyzer_of(r)]}]

InitRuns ==
    /\ SetExtractStateInit
    /\ passes = <<>>
    /\ dependencies = <<>>
    /\ output_map = NoOutputMap
    /\ snap = NoSnapshot
    /\ switch_info = NoSwitchInfo
    /\ pc = "extract"
    /\ chunks = <<>>
    /\ h = InitHistory
    /\ \E a \in RunLogs(MaxRunLog), b \in OtherLogs :
          runs = [ run |-> (1 :> NewRun(a)) @@ (2 :> NewRun(b)),
                   frames |-> [o \in RunIds |-> extract_init],
                   temp |-> [a2 \in RunIds |-> 0],
                   dirs |-> {},
                   made |-> 0 ]

RunStep(r) ==
    \/ RunCreateTemp(r)
    \/ RunConvert(r)
    \/ RunParse(r)
    \/ RunChunk(r)
    \/ RunFinish(r)
    \/ RunReturn(r)

NextRuns ==
    /\ \E r \in RunIds : RunStep(r)
    /\ UNCHANGED <<pc, chunks, trackers, extractor_locals, passes, dependencies,
                   output_map, snap, switch_info, h>>

SpecRuns == InitRuns /\ [][NextRuns]_vars

\* ------------------------------------------------------------------------
\* The state tracker on logs of state events, with reset()
\* ------------------------------------------------------------------------

MaxStateLog == 2

\* The logs of 1..maxlen events of a set.
LogsOver(events, maxlen) == UNION { [1..n -> events] : n \in 1..maxlen }

\* Enables and disables of the tracked capabilities and of two others, and
\* one event of every kind that sets a parameter.
StateEvents ==
    { Enable(c) : c \in Capabilities } \cup { Disable(c) : c \in Capabilities }
    \cup { Enable("GL_DITHER"), Enable("GL_BLEND_ADVANCED_COHERENT_KHR"),
           BlendFunc("GL_SRC_ALPHA", "GL_ONE_MINUS_SRC_ALPHA"),
           Chunk("glBlendFuncSeparate",
                 ("enum:srcRGB" :> "GL_SRC_ALPHA") @@ ("enum:dstRGB" :> "GL_ONE")
                 @@ ("enum:srcAlpha" :> "GL_ZERO") @@ ("enum:dstAlpha" :> "GL_DST_ALPHA")),
           Chunk("glBlendEquation", "enum:mode" :> "GL_FUNC_SUBTRACT"),
           Chunk("glBlendEquationSeparate",
                 ("enum:modeRGB" :> "GL_MIN") @@ ("enum:modeAlpha" :> "GL_MAX")),
           Chunk("glDepthFunc", "enum:func" :> "GL_LEQUAL"),
           Chunk("glDepthMask", "bool:flag" :> "False"),
           StencilFunc("GL_EQUAL", "1", "3"),
           Chunk("glStencilOp",
                 ("enum:fail" :> "GL_REPLACE") @@ ("enum:zfail" :> "GL_INCR")
                 @@ ("enum:zpass" :> "GL_INVERT")),
           Chunk("glCullFace", "enum:mode" :> "GL_FRONT"),
           Chunk("glFrontFace", "enum:mode" :> "GL_CW"),
           Chunk("glScissor",
                 ("int:x" :> "1") @@ ("int:y" :> "2") @@ ("int:width" :> "3")
                 @@ ("int:height" :> "6")),
           Chunk("glColorMask",
                 ("bool:red" :> "True") @@ ("bool:green" :> "False") @@ ("bool:blue" :> "1")
                 @@ ("bool:alpha" :> "0")),
           Chunk("glPolygonMode", "enum:mode" :> "GL_LINE") }

\* state_tracker.process_chunk on the next event of the log.
TrackerReplay ==
    /\ pc = "tracker"
    /\ chunks # <<>>
    /\ IF RenderStateTracker_raises(Head(chunks))
       THEN pc' = "raised" /\ UNCHANGED state_tracker
       ELSE /\ state_tracker' = RenderStateTracker_process_chunk(state_tracker, Head(chunks))
            /\ pc' = pc
    /\ chunks' = Tail(chunks)
    /\ h' = [h EXCEPT !.last = Head(chunks)]
    /\ UNCHANGED <<sampler_tracker, fbo_tracker, extractor_locals, passes,
                   dependencies, output_map, runs, snap, switch_info>>

\* state_tracker.reset()
Reset ==
    /\ pc = "tracker"
    /\ state_tracker' = RenderStateTracker_reset
    /\ h' = [h EXCEPT !.last = Chunk("reset", NoArgs)]
    /\ UNCHANGED <<pc, chunks, sampler_tracker, fbo_tracker, extractor_locals, passes,
                   dependencies, output_map, runs, snap, switch_info>>

InitState ==
    /\ InitRun
    /\ pc = "tracker"
    /\ chunks \in LogsOver(StateEvents, MaxStateLog)
    /\ h = [InitHistory EXCEPT !.log = chunks]

NextState == TrackerReplay \/ Reset

SpecState == InitState /\ [][NextState]_vars

\* ------------------------------------------------------------------------
\* Extractions of logs of one family of events each
\* ------------------------------------------------------------------------

MaxFamilyLog == 4

\* Texture binds, a unit switch and parameter sets by texture and by sampler
\* object, one of them without the sampler's id.
SamplerEvents ==
    { BindTexture("T1"),
      ActiveTexture("GL_TEXTURE1"),
      TexParameteri("GL_TEXTURE_MIN_FILTER", "GL_NEAREST"),
      TexParameteri("GL_TEXTURE_WRAP_S", "GL_CLAMP_TO_EDGE"),
      Chunk("glTexParameterf",
            ("enum:pname" :> "GL_TEXTURE_MAX_ANISOTROPY_EXT") @@ ("float:param" :> "4.0")),
      Chunk("glSamplerParameteri",
            ("ResourceId:sampler" :> "S1") @@ ("enum:pname" :> "GL_TEXTURE_MAG_FILTER")
            @@ ("enum:param" :> "GL_NEAREST")),
      Chunk("glSamplerParameteri",
            ("ResourceId:sampler" :> "S1") @@ ("enum:pname" :> "GL_TEXTURE_WRAP_R")
            @@ ("enum:param" :> "GL_MIRRORED_REPEAT")),
      Chunk("glSamplerParameteri",
            ("enum:pname" :> "GL_TEXTURE_WRAP_T") @@ ("enum:param" :> "GL_CLAMP_TO_EDGE")) }

\* Binds with and without a target and attachments to every kind of slot, by
\* texture and by render buffer, two of them with an attribute missing.
FramebufferEvents ==
    { BindFramebuffer("11"),
      Chunk("glBindFramebuffer", NoArgs),
      FramebufferTexture2D("GL_COLOR_ATTACHMENT0", "T1"),
      FramebufferTexture2D("GL_DEPTH_ATTACHMENT", "T2"),
      FramebufferTexture2D("GL_STENCIL_ATTACHMENT", "T4"),
      Chunk("glFramebufferRenderbuffer",
            ("enum:attachment" :> "GL_DEPTH_STENCIL_ATTACHMENT") @@ ("ResourceId:renderbuffer" :> "R1")),
      Chunk("glFramebufferTexture2D", "enum:attachment" :> "GL_COLOR_ATTACHMENT0"),
      Chunk("glFramebufferTexture2D", "ResourceId:texture" :> "T1") }

\* Texture binds with an id, with an empty id and without one, unit switches
\* by symbolic name and by bare number, a draw.
BindingEvents ==
    { BindTexture("T1"),
      BindTexture("T2"),
      BindTexture(NoneText),
      Chunk("glBindTexture", NoArgs),
      ActiveTexture("GL_TEXTURE1"),
      ActiveTexture("GL_TEXTURE0"),
      Chunk("glActiveTexture", "enum.text:texture" :> "1"),
      DrawArrays("1", "3") }

\* Draws of every kind of variant, with zero, negative and positive counts
\* and with, without and with a zero instance count.
CountEvents ==
    { Chunk("glDrawArrays", "int:count" :> "0"),
      Chunk("glDrawElements", "int:count" :> "-1"),
      Chunk("glDrawRangeElements", "int:count" :> "6"),
      Chunk("glDrawArraysInstanced", ("int:count" :> "3") @@ ("int:instancecount" :> "0")),
      Chunk("glDrawElementsInstanced", ("int:count" :> "6") @@ ("int:primcount" :> "2")),
      Chunk("glDrawArraysInstanced", "int:count" :> "3") }

\* Program binds of two programs, with an empty and without a program
\* element, a texture bind and a draw.
ProgramEvents ==
    { UseProgram("P1"),
      UseProgram("P2"),
      UseProgram(NoneText),
      Chunk("glUseProgram", NoArgs),
      BindTexture("T1"),
      DrawArrays("1", "3") }

InitFamilies ==
    /\ InitRun
    /\ pc = "extract"
    /\ chunks \in LogsOver(SamplerEvents, MaxFamilyLog)
                 \cup LogsOver(FramebufferEvents, MaxFamilyLog)
                 \cup LogsOver(BindingEvents, MaxFamilyLog)
                 \cup LogsOver(CountEvents, MaxFamilyLog)
                 \cup LogsOver(ProgramEvents, MaxFamilyLog)
    /\ h = [InitHistory EXCEPT !.log = chunks]

SpecFamilies == InitFamilies /\ [][NextEvents]_vars

\* ------------------------------------------------------------------------
\* The switch detector on given draw lists
\* ------------------------------------------------------------------------

\* info = detector.extract_switch_info(draws)
DetectSwitches ==
    /\ pc = "extract"
    /\ switch_info' = extract_switch_info(draws)
    /\ pc' = "detected"
    /\ UNCHANGED <<chunks, trackers, extractor_locals, passes, dependencies, output_map, runs,
                   snap, h>>

InitSwitches ==
    /\ pc = "extract"
    /\ chunks = <<>>
    /\ state_tracker = RenderStateTracker_reset
    /\ sampler_tracker = SamplerTracker_init
    /\ fbo_tracker = FramebufferTracker_init
    /\ current_program = ""
    /\ bound_textures = <<>>
    /\ current_texture_unit = 0
    /\ draws \in ShortDrawLists(MaxSegDraws)
    /\ draw_id = Len(draws)
    /\ passes = <<>>
    /\ dependencies = <<>>
    /\ output_map = NoOutputMap
    /\ runs = NoRuns
    /\ snap = NoSnapshot
    /\ switch_info = NoSwitchInfo
    /\ h = InitHistory

NextSwitches == DetectSwitches

SpecSwitches == InitSwitches /\ [][NextSwitches]_vars

\* ------------------------------------------------------------------------
\* The whole pipeline on logs of binds, attachments and draws
\* ------------------------------------------------------------------------

MaxPipelineLog == 5

\* A texture bind, framebuffer binds with and without a target, a color
\* attachment, and draws without and with a marker.
PipelineEvents ==
    { BindTexture("T1"),
      BindFramebuffer("11"),
      Chunk("glBindFramebuffer", NoArgs),
      FramebufferTexture2D("GL_COLOR_ATTACHMENT0", "T1"),
      DrawArrays("1", "3"),
      Chunk("glDrawElements", ("@id" :> "2") @@ ("int:count" :> "6") @@ ("string:Label" :> "Opaque")) }

InitPipeline ==
    /\ InitRun
    /\ pc = "extract"
    /\ chunks \in LogsOver(PipelineEvents, MaxPipelineLog)
    /\ h = [InitHistory EXCEPT !.log = chunks]

SpecPipeline == InitPipeline /\ [][NextEvents]_vars

\* ------------------------------------------------------------------------
\* Properties
\* ------------------------------------------------------------------------

Segmented == pc \in {"segmented", "done"}

\* The member-draw lists of the passes ps, concatenated in pass order.
RECURSIVE MemberDraws(_)
MemberDraws(ps) ==
    IF ps = <<>> THEN <<>> ELSE MemberDraws(SubSeq(ps, 1, Len(ps) - 1)) \o Last(ps).draw_calls

\* The draws of ds all carry one marker and one framebuffer.
OneMarkerOneFramebuffer(ds) ==
    \A k \in 1..Len(ds) : ds[k].marker = ds[1].marker /\ ds[k].fbo_id = ds[1].fbo_id

\* The draw chunk e has no count element, or one whose text int() rejects.
CountMissing(e) ==
    is_draw_call(e.name) /\ (~Has(e, "int:count") \/ ~IsIntText(e.args["int:count"]))

\* C1: every draw record carries the target of the most recent framebuffer
\* bind that precedes its draw event in the log, "0" when no bind precedes it
\* or when that bind names no target.
C1_DrawCarriesLastBoundFramebuffer ==
    \A k \in 1..Len(draws) : draws[k].fbo_id = h.bind_at_draw[k]

C1_Witness ==
    /\ Len(draws) = 2
    /\ draws[1].fbo_id = "11"
    /\ draws[2].fbo_id = "0"
    /\ h.bind_at_draw = <<"11", "0">>

\* C2: the passes of the segmenter partition the draw list: their member-draw
\* lists concatenated in pass order are the draw list, and no pass is empty.
C2_PassesPartitionDraws ==
    Segmented =>
        /\ MemberDraws(passes) = draws
        /\ \A i \in 1..Len(passes) : passes[i].draw_calls # <<>>

C2_Witness ==
    /\ pc = "segmented"
    /\ Len(draws) = 3
    /\ Len(passes) = 2
    /\ Len(passes[2].draw_calls) = 2

\* C3: the pass at position i (counted from 0) of the segmenter's result has
\* index i.
C3_PassIndexIsPosition ==
    Segmented => \A i \in 1..Len(passes) : passes[i].pass_index = i - 1

C3_Witness ==
    /\ pc = "segmented"
    /\ Len(passes) = 3
    /\ passes[3].pass_index = 2

\* C4: every dependency the analyzer returns goes from a pass to a later
\* pass: its source index is less than its target index.
C4_EdgesGoForward ==
    pc = "done" =>
        \A k \in 1..Len(dependencies) :
            dependencies[k].source_pass_index < dependencies[k].target_pass_index

\* A pass that reads the texture it renders to, next to a pass that gives an edge.
C4_Witness ==
    /\ pc = "done"
    /\ dependencies # <<>>
    /\ \E i \in 1..Len(passes) :
          /\ "T1" \in { passes[i].output_textures[k] : k \in 1..Len(passes[i].output_textures) }
          /\ \E j \in 1..Len(passes[i].draw_calls) :
                passes[i].draw_calls[j].bound_textures = <<"T1">>
          /\ \A k \in 1..Len(dependencies) : dependencies[k].target_pass_index # i - 1

\* C5: a snapshot leaves the tracker as it was, and a snapshot that follows
\* another with no event in between returns the same value.
C5_SnapshotIsIdempotent ==
    [][ h'.snapshots >= 1 =>
            /\ state_tracker' = state_tracker
            /\ (h.snapshots >= 1 => snap' = snap) ]_vars

C5_Witness ==
    /\ h.snapshots = 2
    /\ state_tracker.blend_enabled
    /\ state_tracker.src_rgb = "SRC_ALPHA"
    /\ snap = RenderStateTracker_get_current_state(state_tracker)

\* C6: after enable, disable, enable of one of the five capabilities the
\* snapshot equals the one taken after the first enable.
C6_ToggleInvariance ==
    h.toggle.phase = 3 =>
        RenderStateTracker_get_current_state(state_tracker) = h.toggle.snap

C6_Witness ==
    /\ h.toggle.phase = 3
    /\ h.toggle.cap = "GL_BLEND"
    /\ state_tracker.blend_enabled
    /\ state_tracker.src_rgb = "SRC_ALPHA"

\* C7: the log of Scenario A gives exactly two passes and exactly one
\* dependency, from pass 0 to pass 1, on the texture attached to the first
\* framebuffer.
C7_ScenarioA ==
    /\ Segmented => Len(passes) = 2
    /\ pc = "done" =>
          /\ Len(dependencies) = 1
          /\ dependencies[1].source_pass_index = 0
          /\ dependencies[1].target_pass_index = 1
          /\ dependencies[1].resource_id = h.log[2].args["ResourceId:texture"]

C7_Witness ==
    /\ pc = "done"
    /\ h.log = ScenarioA("11", "12", "T1", "T2", TRUE)
    /\ Len(dependencies) = 1
    /\ dependencies[1].resource_id = "T1"

\* C8: no pass has more than 200 draws, and draws that share one marker and
\* one framebuffer are cut by the cap alone: ceil(n / 200) passes, of 200
\* draws each except the last, which takes the rest.
C8_CapSplitsUniformRuns ==
    Segmented =>
        /\ \A i \in 1..Len(passes) : Len(passes[i].draw_calls) <= LargePassThreshold
        /\ (draws # <<>> /\ OneMarkerOneFramebuffer(draws)) =>
              /\ Len(passes) = (Len(draws) + LargePassThreshold - 1) \div LargePassThreshold
              /\ \A i \in 1..Len(passes) :
                    Len(passes[i].draw_calls) =
                        IF i < Len(passes) THEN LargePassThreshold
                        ELSE Len(draws) - LargePassThreshold * (i - 1)

C8_Witness ==
    /\ pc = "segmented"
    /\ Len(draws) = 250
    /\ draws[1].marker = "Shadow"
    /\ Len(passes) = 2
    /\ Len(passes[1].draw_calls) = 200
    /\ Len(passes[2].draw_calls) = 50

\* C9: a draw event without a count, or with a count that is no integer,
\* raises no error and its record is appended with vertex_count = 0 and
\* index_count = 0.
C9_MissingCountGivesZero ==
    CountMissing(h.last) =>
        /\ pc # "raised"
        /\ Len(draws) = Len(h.bind_at_draw)
        /\ Last(draws).vertex_count = 0
        /\ Last(draws).index_count = 0

\* C10: the extraction never ends in an error, whatever the events.
C10_ExtractionNeverRaises == pc # "raised"

\* The step replays the next chunk of the log.
Replays == chunks # <<>> /\ chunks' = Tail(chunks)

\* The attributes the recognized state events read, each with the kind of
\* its element and the tracker fields it is stored in.
StateEventAttributes ==
    { [name |-> "glBlendFunc", kind |-> "enum", attr |-> "sfactor", fields |-> {"src_rgb", "src_alpha"}],
      [name |-> "glBlendFunc", kind |-> "enum", attr |-> "dfactor", fields |-> {"dst_rgb", "dst_alpha"}],
      [name |-> "glBlendFuncSeparate", kind |-> "enum", attr |-> "srcRGB", fields |-> {"src_rgb"}],
      [name |-> "glBlendFuncSeparate", kind |-> "enum", attr |-> "dstRGB", fields |-> {"dst_rgb"}],
      [name |-> "glBlendFuncSeparate", kind |-> "enum", attr |-> "srcAlpha", fields |-> {"src_alpha"}],
      [name |-> "glBlendFuncSeparate", kind |-> "enum", attr |-> "dstAlpha", fields |-> {"dst_alpha"}],
      [name |-> "glBlendEquation", kind |-> "enum", attr |-> "mode",
       fields |-> {"equation_rgb", "equation_alpha"}],
      [name |-> "glDepthFunc", kind |-> "enum", attr |-> "func", fields |-> {"depth_func"}],
      [name |-> "glDepthMask", kind |-> "bool", attr |-> "flag", fields |-> {"depth_write_enabled"}],
      [name |-> "glStencilFunc", kind |-> "enum", attr |-> "func", fields |-> {"stencil_func"}],
      [name |-> "glStencilFunc", kind |-> "int", attr |-> "ref", fields |-> {"stencil_ref"}],
      [name |-> "glStencilFunc", kind |-> "int", attr |-> "mask", fields |-> {"stencil_mask"}],
      [name |-> "glStencilOp", kind |-> "enum", attr |-> "fail", fields |-> {"stencil_fail"}],
      [name |-> "glStencilOp", kind |-> "enum", attr |-> "zfail", fields |-> {"stencil_depth_fail"}],
      [name |-> "glStencilOp", kind |-> "enum", attr |-> "zpass", fields |-> {"stencil_pass"}],
      [name |-> "glCullFace", kind |-> "enum", attr |-> "mode", fields |-> {"cull_mode"}],
      [name |-> "glFrontFace", kind |-> "enum", attr |-> "mode", fields |-> {"front_face"}],
      [name |-> "glScissor", kind |-> "int", attr |-> "x", fields |-> {"scissor_x"}],
      [name |-> "glScissor", kind |-> "int", attr |-> "y", fields |-> {"scissor_y"}],
      [name |-> "glScissor", kind |-> "int", attr |-> "width", fields |-> {"scissor_width"}],
      [name |-> "glScissor", kind |-> "int", attr |-> "height", fields |-> {"scissor_height"}],
      [name |-> "glColorMask", kind |-> "bool", attr |-> "red", fields |-> {"color_mask"}],
      [name |-> "glPolygonMode", kind |-> "enum", attr |-> "mode", fields |-> {"polygon_mode"}] }

\* The chunk has no element for the attribute, or one without a usable value.
AttributeMissing(e, kind, attr) ==
    IF kind = "enum" THEN
        /\ ~Has(e, "enum:" \o attr)
        /\ (~Has(e, "enum.text:" \o attr) \/ e.args["enum.text:" \o attr] = NoneText)
    ELSE IF kind = "int" THEN
        ~Has(e, "int:" \o attr) \/ ~IsIntText(e.args["int:" \o attr])
    ELSE ~Has(e, "bool:" \o attr) /\ ~Has(e, "byte:" \o attr)

\* C11: a recognized state event whose attribute is missing or malformed
\* leaves the tracker field of that attribute at the value it had before.
C11_MissingAttributeKeepsField ==
    [][ \A r \in StateEventAttributes :
            ( /\ Replays
              /\ Head(chunks).name = r.name
              /\ AttributeMissing(Head(chunks), r.kind, r.attr) )
            => \A f \in r.fields : state_tracker'[f] = state_tracker[f] ]_vars

\* The names the three trackers' process_chunk methods test for.
TrackerEventNames ==
    { "glEnable", "glDisable", "glBlendFunc", "glBlendFuncSeparate", "glBlendEquation",
      "glBlendEquationSeparate", "glDepthFunc", "glDepthMask", "glStencilFunc", "glStencilOp",
      "glCullFace", "glFrontFace", "glScissor", "glColorMask", "glPolygonMode",
      "glActiveTexture", "glBindTexture", "glTexParameteri", "glTexParameterf",
      "glSamplerParameteri", "glSamplerParameterf",
      "glBindFramebuffer", "glFramebufferTexture2D", "glFramebufferTexture",
      "glFramebufferRenderbuffer", "glClear", "glClearColor", "glClearDepthf", "glClearDepth",
      "glDrawBuffers" }

\* C12: an event whose name no tracker recognizes leaves the state tracker,
\* the sampler tracker (active unit, bindings, descriptors) and the
\* framebuffer tracker (current id, registry) as they were.
C12_UnknownEventIsIgnored ==
    [][ (Replays /\ Head(chunks).name \notin TrackerEventNames) =>
            /\ state_tracker' = state_tracker
            /\ sampler_tracker' = sampler_tracker
            /\ fbo_tracker' = fbo_tracker ]_vars

C12_Witness ==
    /\ h.last.name = "glFlush"
    /\ pc = "extract"
    /\ state_tracker.blend_enabled
    /\ fbo_tracker.current_fbo = "11"

\* C13: a draw event leaves the pipeline state, the framebuffer tracker, the
\* texture bindings, the active unit and the current program as they were;
\* its only effect is the one record it appends.
C13_DrawLeavesStateAlone ==
    [][ (Replays /\ is_draw_call(Head(chunks).name)) =>
            /\ state_tracker' = state_tracker
            /\ sampler_tracker' = sampler_tracker
            /\ fbo_tracker' = fbo_tracker
            /\ bound_textures' = bound_textures
            /\ current_texture_unit' = current_texture_unit
            /\ current_program' = current_program
            /\ passes' = passes /\ dependencies' = dependencies
            /\ (pc' = "extract" =>
                    /\ Len(draws') = Len(draws) + 1
                    /\ SubSeq(draws', 1, Len(draws)) = draws) ]_vars

C13_Witness ==
    /\ is_draw_call(h.last.name)
    /\ pc = "extract"
    /\ Len(draws) = 1
    /\ bound_textures = <<"T1">>
    /\ fbo_tracker.current_fbo = "11"

\* C14: a record holds the state snapshot, framebuffer, program and bound
\* textures of the moment of its draw event, and no later step changes a
\* record that was appended.
C14_RecordsAreNeverMutated ==
    [][ /\ \A k \in 1..Len(draws) : k <= Len(draws') /\ draws'[k] = draws[k]
        /\ (Replays /\ Len(draws') = Len(draws) + 1) =>
              /\ Last(draws').state = RenderStateTracker_get_current_state(state_tracker')
              /\ Last(draws').fbo_id = fbo_tracker'.current_fbo
              /\ Last(draws').shader_program = current_program'
              /\ Last(draws').bound_textures = SelectSeq(bound_textures', LAMBDA t : t # "") ]_vars

C14_Witness ==
    /\ Len(draws) = 1
    /\ draws[1].fbo_id = "0"
    /\ draws[1].bound_textures = <<>>
    /\ fbo_tracker.current_fbo = "11"
    /\ bound_textures = <<"T1">>

\* The draw events among the chunks of the log that were replayed so far.
DrawEventsSoFar ==
    SelectSeq(SubSeq(h.log, 1, Len(h.log) - Len(chunks)), LAMBDA e : is_draw_call(e.name))

\* C15: the k-th draw event of the log gives the k-th record, with ordinal
\* k, and an extraction that went through the log has one record per draw
\* event.
C15_OneRecordPerDrawInOrder ==
    /\ \A k \in 1..Len(draws) :
          /\ draws[k].draw_id = k
          /\ draws[k].name = DrawEventsSoFar[k].name
          /\ draws[k].event_id = chunk_int(DrawEventsSoFar[k], "@id")
    /\ pc # "raised" => Len(draws) = Len(DrawEventsSoFar)

C15_Witness ==
    /\ pc = "extract"
    /\ Len(draws) = 2
    /\ draws[1].name = "glDrawElements"
    /\ draws[2].name = "glDrawArrays"
    /\ Len(DrawEventsSoFar) = 2
    /\ Len(h.log) = 3

\* A draw d starts a new pass after the pass p that has members draws so far.
StartsNewPass(d, p, members) ==
    \/ d.fbo_id # p.fbo_id
    \/ d.marker # "" /\ d.marker # p.name
    \/ members >= LargePassThreshold

\* C16: the passes hold the draws in order, and a draw opens a pass exactly
\* when it is the first draw, its framebuffer differs from the current
\* pass's, it has a non-empty marker that differs from the current pass's
\* name, or the current pass has 200 or more draws; every other draw joins
\* the current pass.
C16_NewPassExactlyWhen ==
    Segmented =>
        /\ MemberDraws(passes) = draws
        /\ \A i \in 1..Len(passes) :
              \A j \in 1..Len(passes[i].draw_calls) :
                  IF j = 1
                  THEN i = 1 \/ StartsNewPass(passes[i].draw_calls[1], passes[i - 1],
                                              Len(passes[i - 1].draw_calls))
                  ELSE ~StartsNewPass(passes[i].draw_calls[j], passes[i], j - 1)

C16_Witness ==
    /\ pc = "segmented"
    /\ Len(draws) = 3
    /\ draws[1].marker = "Shadow" /\ draws[2].marker = "" /\ draws[3].marker = "Opaque"
    /\ draws[1].fbo_id = draws[2].fbo_id /\ draws[2].fbo_id = draws[3].fbo_id
    /\ Len(passes) = 2
    /\ Len(passes[1].draw_calls) = 2

\* C17: a pass is named after its first draw: the marker if there is one,
\* else the registry's name of a non-default framebuffer if it has one, else
\* "Pass_<ordinal>", with "_FBO_<id>" appended for a non-default framebuffer.
C17_PassNamePriority ==
    Segmented =>
        \A i \in 1..Len(passes) :
            LET d == passes[i].draw_calls[1]
                fbs == fbo_tracker.framebuffers
            IN  passes[i].name =
                    IF d.marker # "" THEN d.marker
                    ELSE IF d.fbo_id # "0" /\ d.fbo_id \in DOMAIN fbs /\ fbs[d.fbo_id].name # ""
                    THEN fbs[d.fbo_id].name
                    ELSE IF d.fbo_id # "0"
                    THEN "Pass_" \o ToString(i) \o "_FBO_" \o d.fbo_id
                    ELSE "Pass_" \o ToString(i)

C17_Witness ==
    /\ pc = "segmented"
    /\ Len(passes) = 3
    /\ passes[1].name = "Shadow" /\ passes[1].fbo_id = "0"
    /\ passes[2].name = "FBO_11"
    /\ passes[3].name = "Pass_3"

\* The output textures the registry gives a pass: the color attachments in
\* order, then the depth attachment; none for a framebuffer it does not hold.
OutputsOf(p) ==
    LET fbs == fbo_tracker.framebuffers IN
    IF p.fbo_id \in DOMAIN fbs
    THEN [k \in 1..Len(fbs[p.fbo_id].color_attachments) |->
              fbs[p.fbo_id].color_attachments[k].texture_id]
         \o [k \in 1..Len(fbs[p.fbo_id].depth_attachment) |->
              fbs[p.fbo_id].depth_attachment[k].texture_id]
    ELSE <<>>

\* The passes (0-based) that have t among their outputs.
WritersOf(t) ==
    { i - 1 : i \in { n \in 1..Len(passes) :
                        \E k \in 1..Len(OutputsOf(passes[n])) : OutputsOf(passes[n])[k] = t } }

\* C18: after the analysis every pass's output_textures are the color
\* attachments, in order, and the depth attachment of its framebuffer in the
\* registry, and the owner map sends each of these textures to the last
\* pass that has it as an output.
C18_OutputsAndOwners ==
    pc = "done" =>
        /\ \A i \in 1..Len(passes) : passes[i].output_textures = OutputsOf(passes[i])
        /\ DOMAIN output_map = { t \in {"T1", "T2", "T3", "T4"} : WritersOf(t) # {} }
        /\ \A t \in DOMAIN output_map :
              /\ output_map[t][1] \in WritersOf(t)
              /\ \A w \in WritersOf(t) : w <= output_map[t][1]
              /\ output_map[t][2] = passes[output_map[t][1] + 1].name

C18_Witness ==
    /\ pc = "done"
    /\ fbo_tracker = TrackerWithStencil
    /\ Len(passes) = 3
    /\ passes[1].output_textures = <<"T1", "T3", "T2">>
    /\ passes[2].output_textures = <<"T1">>
    /\ output_map["T1"][1] = 2
    /\ "T4" \notin DOMAIN output_map

\* The texture ids bound by the draws lo..hi of ds, one per occurrence, in order.
RECURSIVE BoundTextureOccurrences(_, _, _)
BoundTextureOccurrences(ds, lo, hi) ==
    IF lo > hi THEN <<>>
    ELSE IF lo = hi THEN ds[lo].bound_textures
    ELSE BoundTextureOccurrences(ds, lo, (lo + hi) \div 2)
         \o BoundTextureOccurrences(ds, (lo + hi) \div 2 + 1, hi)

\* The occurrences among the draws of pass i (1-based) that an earlier pass owns.
InputsOf(i) ==
    SelectSeq(BoundTextureOccurrences(passes[i].draw_calls, 1, Len(passes[i].draw_calls)),
              LAMBDA t : t \in DOMAIN output_map /\ output_map[t][1] < i - 1)

EdgesInto(i) == SelectSeq(dependencies, LAMBDA d : d.target_pass_index = i - 1)

\* C19: for every pass, each occurrence of a texture among its draws'
\* bound textures that the owner map gives to an earlier pass is one entry
\* of input_textures and one READ_AFTER_WRITE edge from the owner, in order
\* and with duplicates; no other entry or edge exists.
C19_OneEdgePerRead ==
    pc = "done" =>
        /\ \A k \in 1..Len(dependencies) :
              dependencies[k].target_pass_index \in 0..(Len(passes) - 1)
        /\ \A i \in 1..Len(passes) :
              /\ passes[i].input_textures = InputsOf(i)
              /\ Len(EdgesInto(i)) = Len(InputsOf(i))
              /\ \A k \in 1..Len(EdgesInto(i)) :
                    /\ EdgesInto(i)[k].resource_id = InputsOf(i)[k]
                    /\ EdgesInto(i)[k].source_pass_index = output_map[InputsOf(i)[k]][1]
                    /\ EdgesInto(i)[k].source_pass = output_map[InputsOf(i)[k]][2]
                    /\ EdgesInto(i)[k].target_pass = passes[i].name
                    /\ EdgesInto(i)[k].dependency_type = "READ_AFTER_WRITE"

C19_Witness ==
    /\ pc = "done"
    /\ Len(passes) = 2
    /\ passes[2].input_textures = <<"T1", "T1">>
    /\ Len(dependencies) = 2
    /\ dependencies[1].source_pass_index = 0

\* The extractor's loop over log, started from x, run without any other run.
RECURSIVE ExtractAlone(_, _)
ExtractAlone(x, log) ==
    IF log = <<>> \/ x.raised THEN x ELSE ExtractAlone(extract_chunk(x, Head(log)), Tail(log))

\* What the analysis of log gives when it is the only one.
AnalysedAlone(log) ==
    LET x == ExtractAlone(extract_init, log)
    IN  IF x.raised THEN Raised("ValueError") ELSE RDCAnalysisData(x)

Finished(r) == runs.run[r].phase \in {"done", "failed", "returned"}

\* C20: whatever the other run does and however the two interleave, a run
\* that has finished gives the draws, passes, samplers, framebuffers and
\* edges that the analysis of its log gives on its own.
C20_RunsAreIndependent ==
    \A r \in RunIds : Finished(r) => runs.run[r].result = AnalysedAlone(runs.run[r].input)

C20_Witness ==
    /\ runs.run[1].phase = "done"
    /\ runs.run[2].phase = "parsing"
    /\ Len(runs.run[2].log) = 3
    /\ Len(runs.run[1].result.data.draws) = 1
    /\ runs.frames[2].fbo_tracker.current_fbo = "11"
    /\ runs.run[1].result.data.draws[1].fbo_id = "0"

\* C21: right after reset(), whatever events came before, the snapshot is the
\* documented default state: blend disabled with ONE/ZERO factors and ADD
\* equations; depth test disabled, depth write enabled, LESS; stencil
\* disabled, ALWAYS, reference 0, mask of all ones, KEEP/KEEP/KEEP; cull
\* disabled, BACK, counter-clockwise; scissor disabled with a zero rectangle;
\* FILL; color mask RGBA.
C21_ResetRestoresDefaults ==
    (pc = "tracker" /\ h.last = Chunk("reset", NoArgs)) =>
        RenderStateTracker_get_current_state(state_tracker) =
            [ blend |-> [enabled |-> FALSE, src_rgb |-> "ONE", dst_rgb |-> "ZERO",
                         src_alpha |-> "ONE", dst_alpha |-> "ZERO",
                         equation_rgb |-> "FUNC_ADD", equation_alpha |-> "FUNC_ADD"],
              depth |-> [test_enabled |-> FALSE, write_enabled |-> TRUE, func |-> "LESS"],
              stencil |-> [enabled |-> FALSE, func |-> "ALWAYS", ref |-> 0, mask |-> 255,
                           fail_op |-> "KEEP", depth_fail_op |-> "KEEP", pass_op |-> "KEEP"],
              cull |-> [enabled |-> FALSE, mode |-> "BACK", front_face |-> "CCW"],
              scissor |-> [enabled |-> FALSE, x |-> 0, y |-> 0, width |-> 0, height |-> 0],
              polygon_mode |-> "FILL",
              color_mask |-> "RGBA" ]

C21_Witness ==
    /\ pc = "tracker"
    /\ h.last = Chunk("reset", NoArgs)
    /\ chunks = <<>>
    /\ h.log = << StencilFunc("GL_EQUAL", "1", "3"), Enable("GL_STENCIL_TEST") >>

\* The enabled flag of each tracked capability.
CapabilityFlag ==
    ("GL_BLEND" :> "blend_enabled") @@ ("GL_DEPTH_TEST" :> "depth_test_enabled")
    @@ ("GL_STENCIL_TEST" :> "stencil_enabled") @@ ("GL_CULL_FACE" :> "cull_enabled")
    @@ ("GL_SCISSOR_TEST" :> "scissor_enabled")

\* The fields of the category of each event that sets a parameter.
CategoryFields ==
    LET blend == {"src_rgb", "dst_rgb", "src_alpha", "dst_alpha", "equation_rgb", "equation_alpha"}
        depth == {"depth_write_enabled", "depth_func"}
        stencil == {"stencil_func", "stencil_ref", "stencil_mask", "stencil_fail",
                    "stencil_depth_fail", "stencil_pass"}
        cull == {"cull_mode", "front_face"}
        scissor == {"scissor_x", "scissor_y", "scissor_width", "scissor_height"}
    IN  ("glBlendFunc" :> blend) @@ ("glBlendFuncSeparate" :> blend)
        @@ ("glBlendEquation" :> blend) @@ ("glBlendEquationSeparate" :> blend)
        @@ ("glDepthFunc" :> depth) @@ ("glDepthMask" :> depth)
        @@ ("glStencilFunc" :> stencil) @@ ("glStencilOp" :> stencil)
        @@ ("glCullFace" :> cull) @@ ("glFrontFace" :> cull)
        @@ ("glScissor" :> scissor)
        @@ ("glColorMask" :> {"color_mask"}) @@ ("glPolygonMode" :> {"polygon_mode"})

\* C22: an enable or disable changes the enabled flag of the capability it
\* names and nothing else, and nothing at all for a capability that is not
\* one of the five tracked ones; an event that sets a parameter changes no
\* field outside its own category and no enabled flag.
C22_EventsStayInTheirCategory ==
    [][ (pc = "tracker" /\ pc' = "tracker" /\ Replays) =>
            LET e == Head(chunks)
                cap == get_enum_value(e, "cap")
            IN  /\ e.name \in {"glEnable", "glDisable"} =>
                      state_tracker' =
                          IF cap \in DOMAIN CapabilityFlag
                          THEN [state_tracker EXCEPT ![CapabilityFlag[cap]] = (e.name = "glEnable")]
                          ELSE state_tracker
                /\ e.name \in DOMAIN CategoryFields =>
                      \A f \in (DOMAIN state_tracker) \ CategoryFields[e.name] :
                          state_tracker'[f] = state_tracker[f] ]_vars

TexParamNames == {"glTexParameteri", "glTexParameterf", "glSamplerParameteri", "glSamplerParameterf"}

\* The ids of the descriptors, and the descriptor of an id.
SamplerIds(samplers) == { samplers[i].sampler_id : i \in 1..Len(samplers) }

\* C23: a parameter-set event targets the sampler object's id when the call
\* names a sampler, otherwise the texture bound to the active unit; when
\* there is no such id (nothing bound to the active unit, or no sampler id)
\* no descriptor is created or changed, and otherwise only the target's is.
C23_UnresolvedKeyIsDropped ==
    [][ (pc = "extract" /\ pc' = "extract" /\ Replays /\ Head(chunks).name \in TexParamNames) =>
            LET e == Head(chunks)
                t == sampler_tracker
                key == IF e.name \in {"glSamplerParameteri", "glSamplerParameterf"}
                       THEN get_resource_id(e, "sampler")
                       ELSE IF t.current_texture_unit \in DOMAIN t.bound_textures
                            THEN t.bound_textures[t.current_texture_unit]
                            ELSE ""
            IN  IF key = ""
                THEN sampler_tracker'.samplers = t.samplers
                ELSE /\ SamplerIds(sampler_tracker'.samplers) = SamplerIds(t.samplers) \cup {key}
                     /\ \A i \in 1..Len(t.samplers) :
                           t.samplers[i].sampler_id # key =>
                               sampler_tracker'.samplers[i] = t.samplers[i] ]_vars

\* The descriptor field each parameter name sets.
ParameterField ==
    ("GL_TEXTURE_MIN_FILTER" :> "min_filter") @@ ("GL_TEXTURE_MAG_FILTER" :> "mag_filter")
    @@ ("GL_TEXTURE_WRAP_S" :> "wrap_s") @@ ("GL_TEXTURE_WRAP_T" :> "wrap_t")
    @@ ("GL_TEXTURE_WRAP_R" :> "wrap_r") @@ ("GL_TEXTURE_MAX_ANISOTROPY_EXT" :> "anisotropy")

\* C24: a parameter-set event changes at most one descriptor, and of that
\* descriptor only the field its parameter name stands for; the other fields
\* keep their value, or the default when the descriptor is new.
C24_OnlyTheNamedFieldChanges ==
    [][ (pc = "extract" /\ pc' = "extract" /\ Replays /\ Head(chunks).name \in TexParamNames
         /\ get_enum_value(Head(chunks), "pname") \in DOMAIN ParameterField) =>
            LET before == sampler_tracker.samplers
                after == sampler_tracker'.samplers
                field == ParameterField[get_enum_value(Head(chunks), "pname")]
            IN  \/ after = before
                \/ \E i \in 1..Len(after) :
                      /\ Len(after) = IF i > Len(before) THEN Len(before) + 1 ELSE Len(before)
                      /\ \A j \in 1..Len(before) : j # i => after[j] = before[j]
                      /\ LET prior == IF i <= Len(before) THEN before[i]
                                      ELSE SamplerInfo(after[i].sampler_id)
                         IN  \A f \in (DOMAIN prior) \ {field} : after[i][f] = prior[f] ]_vars

C24_Witness ==
    /\ pc = "extract"
    /\ Len(sampler_tracker.samplers) = 2
    /\ sampler_tracker.samplers[1].sampler_id = "T1"
    /\ sampler_tracker.samplers[1].min_filter = "NEAREST"
    /\ sampler_tracker.samplers[1].wrap_s = "CLAMP_TO_EDGE"
    /\ sampler_tracker.samplers[1].mag_filter = "LINEAR"
    /\ sampler_tracker.samplers[2].sampler_id = "S1"
    /\ sampler_tracker.samplers[2].mag_filter = "NEAREST"
    /\ h.last = TexParameteri("GL_TEXTURE_WRAP_S", "GL_CLAMP_TO_EDGE")

\* The target of a bind event: the default id when the event names none.
BindTarget(e) ==
    IF Has(e, "ResourceId:framebuffer") /\ e.args["ResourceId:framebuffer"] \notin {NoneText, ""}
    THEN e.args["ResourceId:framebuffer"]
    ELSE "0"

\* C25: the registry always holds the default framebuffer, marked default,
\* and the current id, and marks no other id default; no step removes a
\* descriptor; a bind makes its target (the default id without one) current,
\* registers it if it is new and leaves every registered descriptor as it is.
C25_RegistryInvariant ==
    /\ [](LET fbs == fbo_tracker.framebuffers
          IN  /\ "0" \in DOMAIN fbs
              /\ fbs["0"].is_default
              /\ fbo_tracker.current_fbo \in DOMAIN fbs
              /\ \A f \in DOMAIN fbs : fbs[f].is_default => f = "0")
    /\ [][ LET fbs == fbo_tracker.framebuffers
               after == fbo_tracker'.framebuffers
           IN  /\ DOMAIN fbs \subseteq DOMAIN after
               /\ (pc = "extract" /\ pc' = "extract" /\ Replays
                   /\ Head(chunks).name = "glBindFramebuffer") =>
                      /\ fbo_tracker'.current_fbo = BindTarget(Head(chunks))
                      /\ DOMAIN after = DOMAIN fbs \cup {BindTarget(Head(chunks))}
                      /\ \A f \in DOMAIN fbs : after[f] = fbs[f] ]_vars

C25_Witness ==
    /\ pc = "extract"
    /\ chunks = <<>>
    /\ h.log = << BindFramebuffer("11"), FramebufferTexture2D("GL_COLOR_ATTACHMENT0", "T1"),
                  Chunk("glBindFramebuffer", NoArgs), BindFramebuffer("11") >>
    /\ fbo_tracker.current_fbo = "11"
    /\ Len(fbo_tracker.framebuffers["11"].color_attachments) = 1

\* The descriptor field each slot name selects.
SlotField ==
    ("GL_COLOR_ATTACHMENT0" :> "color_attachments") @@ ("GL_COLOR_ATTACHMENT1" :> "color_attachments")
    @@ ("GL_DEPTH_STENCIL_ATTACHMENT" :> "depth_stencil_attachment")
    @@ ("GL_DEPTH_ATTACHMENT" :> "depth_attachment")
    @@ ("GL_STENCIL_ATTACHMENT" :> "stencil_attachment")

\* C26: an attachment event with a slot and a resource id changes the one
\* field of the current framebuffer's descriptor that the slot selects: a
\* color slot appends to the list, the other slots replace their attachment;
\* nothing else changes, and an event without slot or resource id changes
\* nothing.
C26_AttachmentGoesToItsSlot ==
    [][ (pc = "extract" /\ pc' = "extract" /\ Replays
         /\ Head(chunks).name \in {"glFramebufferTexture2D", "glFramebufferTexture",
                                   "glFramebufferRenderbuffer"}) =>
            LET e == Head(chunks)
                slot == get_enum_value(e, "attachment")
                res == IF e.name = "glFramebufferRenderbuffer"
                       THEN get_resource_id(e, "renderbuffer") ELSE get_resource_id(e, "texture")
                cur == fbo_tracker.current_fbo
                fbs == fbo_tracker.framebuffers
                after == fbo_tracker'.framebuffers
            IN  IF slot = "" \/ res = "" THEN fbo_tracker' = fbo_tracker
                ELSE /\ fbo_tracker'.current_fbo = cur
                     /\ DOMAIN after = DOMAIN fbs
                     /\ \A f \in DOMAIN fbs : f # cur => after[f] = fbs[f]
                     /\ slot \in DOMAIN SlotField
                     /\ \A g \in (DOMAIN fbs[cur]) \ {SlotField[slot]} : after[cur][g] = fbs[cur][g]
                     /\ LET old == fbs[cur][SlotField[slot]]
                            new == after[cur][SlotField[slot]]
                        IN  /\ IF SlotField[slot] = "color_attachments"
                               THEN Len(new) = Len(old) + 1 /\ SubSeq(new, 1, Len(old)) = old
                               ELSE Len(new) = 1
                            /\ Last(new).attachment = slot
                            /\ e.name # "glFramebufferRenderbuffer" => Last(new).texture_id = res ]_vars

C26_Witness ==
    /\ pc = "extract"
    /\ fbo_tracker.current_fbo = "11"
    /\ Len(fbo_tracker.framebuffers["11"].color_attachments) = 2
    /\ fbo_tracker.framebuffers["11"].color_attachments[1].attachment = "GL_COLOR_ATTACHMENT0"
    /\ fbo_tracker.framebuffers["11"].color_attachments[2].attachment = "GL_COLOR_ATTACHMENT0"
    /\ fbo_tracker.framebuffers["11"].depth_stencil_attachment # <<>>
    /\ fbo_tracker.framebuffers["0"].color_attachments = <<>>

\* The indexed variants of the draw calls.
IndexedVariants ==
    {"glDrawElements", "glDrawElementsInstanced", "glDrawRangeElements", "glMultiDrawElements",
     "glDrawElementsBaseVertex"}

\* A step that replays a draw event and appends its record.
RecordsDraw ==
    /\ pc = "extract" /\ pc' = "extract"
    /\ Replays
    /\ is_draw_call(Head(chunks).name)
    /\ Len(draws') = Len(draws) + 1

\* C27: the record of a draw event with a count that parses holds that
\* count as it is, zero and negative values too: as index count for an
\* indexed variant and as vertex count for every other one, the other count
\* being 0.
C27_CountIsRecordedAsIs ==
    [][ (RecordsDraw /\ Has(Head(chunks), "int:count")
         /\ IsIntText(Head(chunks).args["int:count"])) =>
            LET count == IntTexts[Head(chunks).args["int:count"]]
                rec == Last(draws')
            IN  IF Head(chunks).name \in IndexedVariants
                THEN rec.index_count = count /\ rec.vertex_count = 0
                ELSE rec.vertex_count = count /\ rec.index_count = 0 ]_vars

C27_Witness ==
    /\ pc = "extract"
    /\ Len(draws) = 2
    /\ draws[1].name = "glDrawElements" /\ draws[1].index_count = -1 /\ draws[1].vertex_count = 0
    /\ draws[2].name = "glDrawArrays" /\ draws[2].vertex_count = 0
    /\ h.last = Chunk("glDrawArrays", "int:count" :> "0")

\* C28: every draw record has an instance count of at least 1: 1 for a
\* variant that is not instanced and for an instanced one without an
\* instance count, the value of the attribute otherwise.
C28_InstanceCountAtLeastOne ==
    \A i \in 1..Len(draws) : draws[i].instance_count >= 1

\* C29: a draw's bound_textures are the non-empty bindings in the order of
\* their units, and no texture id is in the list twice.
C29_BoundTexturesWithoutDuplicates ==
    \A i \in 1..Len(draws) :
        \A j, k \in 1..Len(draws[i].bound_textures) :
            j # k => draws[i].bound_textures[j] # draws[i].bound_textures[k]

\* C30: after every prefix of the events the extractor's active unit and
\* bindings are the sampler tracker's, so that a draw records the sampler
\* tracker's non-empty bindings in the order of their units.
C30_ExtractorAgreesWithSamplerTracker ==
    pc = "extract" =>
        /\ current_texture_unit = sampler_tracker.current_texture_unit
        /\ \A u \in 0..(Len(bound_textures) - 1) :
              bound_textures[u + 1] # "" =>
                  /\ u \in DOMAIN sampler_tracker.bound_textures
                  /\ sampler_tracker.bound_textures[u] = bound_textures[u + 1]
        /\ \A u \in DOMAIN sampler_tracker.bound_textures :
              u < Len(bound_textures) /\ bound_textures[u + 1] = sampler_tracker.bound_textures[u]

\* The position in log of its k-th draw event.
DrawPosition(log, k) ==
    CHOOSE i \in 1..Len(log) :
        /\ is_draw_call(log[i].name)
        /\ Cardinality({ j \in 1..i : is_draw_call(log[j].name) }) = k

\* The program-bind events of log before position n that carry a program element.
ProgramBindsBefore(log, n) ==
    { i \in 1..(n - 1) : log[i].name = "glUseProgram" /\ Has(log[i], "ResourceId:program") }

\* The text of the program element of the last of them, "" for an empty
\* element and when there is none.
LastProgramBefore(log, n) ==
    IF ProgramBindsBefore(log, n) = {} THEN ""
    ELSE LET i == CHOOSE b \in ProgramBindsBefore(log, n) :
                      \A c \in ProgramBindsBefore(log, n) : c <= b
             text == log[i].args["ResourceId:program"]
         IN  IF text = NoneText THEN "" ELSE text

\* C31: every draw record's shader program is the program id of the most
\* recent program-bind event before the draw in the log that carries a
\* program element, and the empty id when there is none; a program bind
\* without the element and every other kind of event leave it as it was.
C31_DrawCarriesLastBoundProgram ==
    pc # "raised" =>
        \A k \in 1..Len(draws) :
            draws[k].shader_program = LastProgramBefore(h.log, DrawPosition(h.log, k))

C31_Witness ==
    /\ h.log = << UseProgram("P1"), Chunk("glUseProgram", NoArgs), BindTexture("T1"),
                  DrawArrays("1", "3") >>
    /\ Len(draws) = 1
    /\ draws[1].shader_program = "P1"

\* The sum of the durations, in nanoseconds, of the draws ds[lo..hi].
RECURSIVE SumDurations(_, _, _)
SumDurations(ds, lo, hi) ==
    IF lo > hi THEN 0
    ELSE IF lo = hi THEN ds[lo].duration_ns
    ELSE SumDurations(ds, lo, (lo + hi) \div 2) + SumDurations(ds, (lo + hi) \div 2 + 1, hi)

\* C32: the total duration of every pass of the segmenter is the sum of the
\* durations of its member draws, counted in nanoseconds.
C32_DurationIsSumOfMembers ==
    Segmented =>
        \A p \in 1..Len(passes) :
            passes[p].duration_ms = SumDurations(passes[p].draw_calls, 1, Len(passes[p].draw_calls))

C32_Witness ==
    /\ Segmented
    /\ Len(passes) = 2
    /\ Len(passes[1].draw_calls) = 2
    /\ passes[1].draw_calls[1].duration_ns # passes[1].draw_calls[2].duration_ns
    /\ passes[1].duration_ms = passes[1].draw_calls[1].duration_ns + passes[1].draw_calls[2].duration_ns
    /\ passes[2].duration_ms = passes[2].draw_calls[1].duration_ns

\* The positions at which a maximal run of draws with equal marker starts.
MarkerRunStarts(ds) ==
    { i \in 1..Len(ds) : i = 1 \/ ds[i].marker # ds[i - 1].marker }

\* C33: extract_switch_info reports as marker_switches the number of maximal
\* runs of consecutive draws with equal marker, the first draw opening the
\* first run, and as total the sum of its four switch counts.
C33_MarkerSwitchesCountRuns ==
    pc = "detected" =>
        /\ switch_info.marker_switches = Cardinality(MarkerRunStarts(draws))
        /\ switch_info.total = switch_info.marker_switches + switch_info.fbo_switches
                               + switch_info.texture_bind_changes + switch_info.shader_changes

C33_Witness ==
    /\ pc = "detected"
    /\ Len(draws) = 3
    /\ draws[1].marker = "Shadow"
    /\ draws[2].marker = "Shadow"
    /\ draws[3].marker = ""
    /\ switch_info.marker_switches = 2
    /\ switch_info.total = 2

\* C34: when the cap of 200 draws splits a run of draws that share one
\* non-empty marker and one framebuffer, every continuation pass carries the
\* marker as its name like its predecessor: passes with distinct, consecutive
\* indices have the identical name.
C34_ContinuationReusesName ==
    (Segmented /\ draws # <<>> /\ OneMarkerOneFramebuffer(draws) /\ draws[1].marker # ""
        /\ Len(draws) > LargePassThreshold) =>
        /\ Len(passes) >= 2
        /\ \A p \in 1..(Len(passes) - 1) :
              /\ passes[p].name = draws[1].marker
              /\ passes[p + 1].name = passes[p].name
              /\ passes[p + 1].pass_index = passes[p].pass_index + 1

C34_Witness ==
    /\ Segmented
    /\ Len(draws) = LargePassThreshold + 1
    /\ OneMarkerOneFramebuffer(draws)
    /\ draws[1].marker = "Shadow"
    /\ Len(passes) = 2
    /\ passes[1].name = "Shadow"
    /\ passes[2].name = "Shadow"
    /\ passes[1].pass_index = 0
    /\ passes[2].pass_index = 1

\* C35: after extraction and segmentation of a log, all member draws of a
\* pass carry the pass's framebuffer id, and that id is a key of the
\* framebuffer registry.
C35_PassHasOneRegisteredFramebuffer ==
    Segmented =>
        \A p \in 1..Len(passes) :
            /\ passes[p].fbo_id \in DOMAIN fbo_tracker.framebuffers
            /\ \A k \in 1..Len(passes[p].draw_calls) :
                  passes[p].draw_calls[k].fbo_id = passes[p].fbo_id

C35_Witness ==
    /\ Segmented
    /\ Len(passes) = 1
    /\ Len(passes[1].draw_calls) = 2
    /\ passes[1].fbo_id = "11"
    /\ passes[1].draw_calls[2].fbo_id = "11"
    /\ DOMAIN fbo_tracker.framebuffers = {"0", "11"}

\* C36: in every pass each member draw with a non-empty marker has the pass's
\* name as its marker, and a draw without a marker joins the current pass
\* whatever its name is: it opens a pass only as the first draw, on another
\* framebuffer or after a pass of 200 draws.
C36_MarkedMembersCarryPassName ==
    Segmented =>
        \A i \in 1..Len(passes) :
            /\ \A j \in 1..Len(passes[i].draw_calls) :
                  passes[i].draw_calls[j].marker # "" =>
                      passes[i].draw_calls[j].marker = passes[i].name
            /\ (i > 1 /\ passes[i].draw_calls[1].marker = "") =>
                  \/ passes[i].draw_calls[1].fbo_id # passes[i - 1].fbo_id
                  \/ Len(passes[i - 1].draw_calls) >= LargePassThreshold

C36_Witness ==
    /\ pc = "segmented"
    /\ Len(passes) = 1
    /\ passes[1].name = "Shadow"
    /\ Len(passes[1].draw_calls) = 3
    /\ passes[1].draw_calls[2].marker = ""
    /\ passes[1].draw_calls[3].marker = "Shadow"

\* The framebuffer that is bound when the event at position n of log is
\* processed: the target of the last bind before it, "0" without one.
FramebufferBoundBefore(log, n) ==
    LET binds == { i \in 1..(n - 1) : log[i].name = "glBindFramebuffer" }
    IN  IF binds = {} THEN "0"
        ELSE LET e == log[CHOOSE b \in binds : \A c \in binds : c <= b]
             IN  IF get_resource_id(e, "framebuffer") = "" THEN "0"
                 ELSE get_resource_id(e, "framebuffer")

\* The texture ids in the sequence texs.
TexturesOf(texs) == { texs[k] : k \in 1..Len(texs) }

\* C37: the outputs of a pass are read from the framebuffer registry as the
\* whole log left it: two passes on the same framebuffer have identical
\* output textures, and a texture attached to a framebuffer by any event of
\* the log, also one after the pass's last draw, is an output of every pass on
\* that framebuffer.
C37_OutputsComeFromFinalRegistry ==
    pc = "done" =>
        /\ \A p, q \in 1..Len(passes) :
              passes[p].fbo_id = passes[q].fbo_id =>
                  passes[p].output_textures = passes[q].output_textures
        /\ \A n \in 1..Len(h.log) :
              (h.log[n].name = "glFramebufferTexture2D"
                  /\ get_resource_id(h.log[n], "texture") # "") =>
                  \A p \in 1..Len(passes) :
                      passes[p].fbo_id = FramebufferBoundBefore(h.log, n) =>
                          get_resource_id(h.log[n], "texture") \in TexturesOf(passes[p].output_textures)

C37_Witness ==
    /\ pc = "done"
    /\ h.log = << BindTexture("T1"), DrawArrays("1", "3"),
                  FramebufferTexture2D("GL_COLOR_ATTACHMENT0", "T1"),
                  BindFramebuffer("11"), DrawArrays("1", "3") >>
    /\ Len(passes) = 2
    /\ passes[1].output_textures = <<"T1">>
    /\ Len(dependencies) = 1
    /\ dependencies[1].source_pass_index = 0
    /\ dependencies[1].target_pass_index = 1
    /\ dependencies[1].resource_id = "T1"

\* C38: the source of every edge on a texture is the highest-index pass of
\* the whole frame that has the texture as an output; a pass that binds a
\* texture which is an output of itself or of a later pass gets no edge on
\* that texture, also when an earlier pass has it as an output too.
C38_SourceIsLastWriterOfFrame ==
    pc = "done" =>
        /\ \A k \in 1..Len(dependencies) :
              /\ dependencies[k].source_pass_index \in WritersOf(dependencies[k].resource_id)
              /\ \A w \in WritersOf(dependencies[k].resource_id) :
                    w <= dependencies[k].source_pass_index
        /\ \A i \in 1..Len(passes) :
              \A j \in 1..Len(passes[i].draw_calls) :
                  \A t \in TexturesOf(passes[i].draw_calls[j].bound_textures) :
                      (\E w \in WritersOf(t) : w >= i - 1) =>
                          \A k \in 1..Len(dependencies) :
                              ~(dependencies[k].target_pass_index = i - 1
                                /\ dependencies[k].resource_id = t)

C38_Witness ==
    /\ pc = "done"
    /\ fbo_tracker = TrackerWithStencil
    /\ Len(passes) = 3
    /\ passes[1].fbo_id = "11"
    /\ passes[2].fbo_id = "0"
    /\ passes[2].draw_calls[1].bound_textures = <<"T1">>
    /\ passes[3].fbo_id = "11"
    /\ WritersOf("T1") = {0, 1, 2}
    /\ dependencies = <<>>

\* C39: texture-unit bindings are never cleared.  A unit that holds a
\* non-empty texture id holds one after every later event, in the extractor's
\* list and in the sampler tracker's table; a texture bind with an absent or
\* empty id changes neither; and the bound_textures of a draw record are
\* never shorter than those of the record before it.
C39_BindingsAreNeverCleared ==
    /\ [](\A k \in 1..(Len(draws) - 1) :
             Len(draws[k].bound_textures) <= Len(draws[k + 1].bound_textures))
    /\ [][ Replays =>
            /\ \A u \in 1..Len(bound_textures) :
                  bound_textures[u] # "" =>
                      u <= Len(bound_textures') /\ bound_textures'[u] # ""
            /\ \A u \in DOMAIN sampler_tracker.bound_textures :
                  /\ u \in DOMAIN sampler_tracker'.bound_textures
                  /\ sampler_tracker'.bound_textures[u] # ""
            /\ (Head(chunks).name = "glBindTexture"
                   /\ get_resource_id(Head(chunks), "texture") = "") =>
                  /\ bound_textures' = bound_textures
                  /\ sampler_tracker'.bound_textures = sampler_tracker.bound_textures ]_vars

C39_Witness ==
    /\ h.log = << BindTexture("T1"), DrawArrays("1", "3"), Chunk("glBindTexture", NoArgs),
                  DrawArrays("1", "3") >>
    /\ Len(draws) = 2
    /\ draws[1].bound_textures = <<"T1">>
    /\ draws[2].bound_textures = <<"T1">>
    /\ bound_textures = <<"T1">>

\* The names "Pass_<n>" and "Pass_<n>_FBO_<id>" for the ordinals a log of
\* the pipeline can reach.
SyntheticNames == { "Pass_" \o ToString(n) : n \in 1..(MaxPipelineLog + 1) }

SyntheticFramebufferNames ==
    { "Pass_" \o ToString(n) \o "_FBO_" \o id : n \in 1..(MaxPipelineLog + 1), id \in {"0", "11"} }

\* C40: in the whole pipeline every non-default framebuffer id a draw
\* carries is registered under the name "FBO_<id>", so no pass is named
\* "Pass_<n>_FBO_<id>": a pass opened by an unmarked draw on a non-default
\* framebuffer is named "FBO_<id>", and a pass is named "Pass_<n>" only when
\* an unmarked draw on the default framebuffer opened it.
C40_NoSyntheticFramebufferName ==
    /\ \A k \in 1..Len(draws) :
          draws[k].fbo_id # "0" =>
              /\ draws[k].fbo_id \in DOMAIN fbo_tracker.framebuffers
              /\ fbo_tracker.framebuffers[draws[k].fbo_id].name = "FBO_" \o draws[k].fbo_id
    /\ Segmented =>
          \A p \in 1..Len(passes) :
              /\ passes[p].name \notin SyntheticFramebufferNames
              /\ (passes[p].draw_calls[1].marker = "" /\ passes[p].fbo_id # "0") =>
                    passes[p].name = "FBO_" \o passes[p].fbo_id
              /\ passes[p].name \in SyntheticNames =>
                    passes[p].draw_calls[1].marker = "" /\ passes[p].fbo_id = "0"

C40_Witness ==
    /\ Segmented
    /\ Len(passes) = 2
    /\ passes[1].draw_calls[1].marker = ""
    /\ passes[1].fbo_id = "11"
    /\ passes[1].name = "FBO_11"
    /\ passes[2].draw_calls[1].marker = ""
    /\ passes[2].fbo_id = "0"
    /\ passes[2].name = "Pass_2"

====
